---- MODULE Spec2Model ----
(***************************************************************************)
(* Model of the search orchestration of components/GoogleMap.tsx           *)
(* (searchBusinesses, the search useEffect, fetchBusinessDemographics and  *)
(* the quota cooldown), of the App.tsx consumer callbacks, and of          *)
(* ChatGPTService.enrichRecommendationsWithDemographics, of                *)
(* utils/demographicsUtils.ts (fetchDemographics) and of                   *)
(* utils/geographicUtils.ts (findOverlappingBusinesses and the circle      *)
(* functions it calls), of showDemographicPopup of GoogleMap.tsx and of    *)
(* utils/googleMapsLoader.ts (loadGoogleMapsScript).                       *)
(*                                                                         *)
(* Time is discrete.  One tick is TickMs milliseconds; Date.now() and the  *)
(* timers of setTimeout are kept as ages and remaining delays, so that no  *)
(* absolute clock is needed.  A timer whose remaining delay is 0 is due:   *)
(* its callback may run now or at any later instant (timers can be late,   *)
(* never early).  A React state update, the re-render it causes and the    *)
(* effects of that render are one step.                                    *)
(*                                                                         *)
(* Numbers are exact: lengths are whole centimetres, quotients are kept in *)
(* lowest terms and areas are kept as the expression that gives them, so   *)
(* the rounding of floating-point arithmetic is not part of the model,      *)
(* except for the lens formula of calculateCircleIntersectionArea, which   *)
(* is also evaluated in binary floating-point arithmetic with rounding to  *)
(* nearest, on a significand of Precision bits.                            *)
(***************************************************************************)
EXTENDS Integers, Sequences, FiniteSets, TLC

\* ---------------------------------------------------------------- constants
MIN_SEARCH_INTERVAL == 2000
QUOTA_RESET_DELAY == 60000
\* 4023.36 m, the radius of a business that has none
DefaultRadius == 402336
\* const maxAttempts = 50 of the readiness poll of loadGoogleMapsScript
maxAttempts == 50

\* ------------------------------------------------------------------- bounds
MaxRequests == 2
MaxQuotaErrors == 2
NumBusinesses == 3
MaxRecs == 3
MaxEntities == 3
MaxPopups == 3
MaxClicks == 4
MaxLoads == 2
MaxLoaderCalls == 3
Precision == 4

TickMs == MIN_SEARCH_INTERVAL
MinTicks == MIN_SEARCH_INTERVAL \div TickMs
QuotaTicks == QUOTA_RESET_DELAY \div TickMs
MaxSearches == MaxRequests + MaxQuotaErrors
SearchIds == 1..MaxSearches
NoTimer == 0 - 1

Max(a, b) == IF a >= b THEN a ELSE b
Min(a, b) == IF a <= b THEN a ELSE b

VARIABLES
  \* GoogleMap.tsx component state and refs
  mapInstance,            \* mapInstanceRef.current is set
  businessType,           \* the businessType prop is a non-empty string
  quotaExhausted,         \* useState quotaExhausted
  error,                  \* useState error: "", "quota", "invalid", "search"
  lastSearchAge,          \* Date.now() - lastSearchTimeRef.current, in ticks, saturated at MinTicks
  searchTimeout,          \* remaining delay of the timer in searchTimeoutRef, NoTimer when none is pending
  searchAbortController,  \* the search owning searchAbortControllerRef.current, 0 when null
  search,                 \* per dispatched search: lookup, aborted, enrich, quotaTimer, notified
  nextId,                 \* number of searches dispatched so far
  markers,                \* the search whose markers are on the map, 0 when cleared
  \* App.tsx consumer state
  businesses,             \* <<search, kind>> of the list last given to handleBusinessesFound
  overlaps,               \* the search whose overlaps App holds, 0 when cleared
  isSearchingBusinesses,
  \* bookkeeping of the environment and history
  requests,               \* number of search requests made by the user
  timerKind,              \* what scheduled the pending timer: "none", "request", "requestDeferred", "auto"
  quotaErrors,            \* number of quota errors reported so far
  sinceDispatch,          \* ticks since the last dispatch, saturated at MinTicks
  sinceQuotaError,        \* ticks since the last quota error, saturated at QuotaTicks
  staleEffects,           \* effects a search had on the consumer after it was superseded
  lastDispatch            \* the timerKind of the timer that dispatched the last search

searchVars == <<mapInstance, businessType, quotaExhausted, error, lastSearchAge,
                searchTimeout, searchAbortController, search, nextId, markers,
                businesses, overlaps, isSearchingBusinesses, requests, timerKind,
                quotaErrors, sinceDispatch, sinceQuotaError,
                staleEffects, lastDispatch>>

VARIABLES
  \* fetchBusinessDemographics(businesses, abortSignal), one call
  bizLocation,            \* per business: business.location is set
  bizAborted,             \* abortSignal.aborted
  bizPc,                  \* per business: "delay", "fetching", "done"
  bizResult,              \* per business: what its mapper returned
  bizOutcome,             \* "running", then how the call ended
  bizCalls,               \* invocations of onBusinessesFound by this call
  bizCallsAborted         \* those made while the signal was aborted

bizVars == <<bizLocation, bizAborted, bizPc, bizResult, bizOutcome, bizCalls, bizCallsAborted>>

VARIABLES
  \* ChatGPTService.enrichRecommendationsWithDemographics(recommendations), one call
  recommendations,        \* the input sequence
  enrichStatus,           \* "idle", "running", "resolved", "rejected"
  lookups,                \* per input index: fetchDemographics calls issued
  lookupOutcome,          \* per input index: how its lookup ended, "pending" before
  mapped,                 \* per input index: the settled promise of its mapper
  completionOrder,        \* input indices in the order their lookups completed
  enrichedRecommendations \* the value the call resolved with

enrichVars == <<recommendations, enrichStatus, lookups, lookupOutcome, mapped,
                completionOrder, enrichedRecommendations>>

VARIABLES
  abortSignal,      \* the AbortSignal of the call: "none", "active", "aborted"
  demoPc,           \* where fetchDemographics waits
  demoResult,       \* what the call has resolved or rejected with
  demoRequests,     \* the network requests sent, in order
  demoGeo,          \* how the geography lookup ended
  demoCensus,       \* how the statistics lookup ended
  demoRow,          \* the statistics row the value was computed from
  abortedAt         \* where the call waited when abort() was called

demoVars == <<abortSignal, demoPc, demoResult, demoRequests, demoGeo, demoCensus,
              demoRow, abortedAt>>

VARIABLES
  geoBusinesses,    \* the argument of findOverlappingBusinesses
  geoPc,            \* "idle", "loop", "done"
  geoI,             \* i of the outer loop (from 1)
  geoJ,             \* j of the inner loop
  geoOverlaps,      \* the overlaps pushed so far
  radiiUsed         \* radius1 and radius2 of every pass of the inner loop

geoVars == <<geoBusinesses, geoPc, geoI, geoJ, geoOverlaps, radiiUsed>>

VARIABLES
  overlapCall,      \* the last call of doCirclesOverlap and its result
  areaCall          \* the last call of calculateCircleIntersectionArea

circleVars == <<overlapCall, areaCall>>

VARIABLES
  lastDemographicRequest,     \* lastDemographicRequestRef.current, "" when cleared
  demographicAbortController, \* the popup request owning demographicAbortControllerRef.current, 0 when null
  demographicInfoWindow,      \* the request that opened demographicInfoWindowRef.current, and its content
  popup,                      \* per popup request: requestKey, pc, aborted, fetches, outcome
  popupCount,                 \* popup requests started so far
  clicks,                     \* calls of showDemographicPopup so far
  clicked                     \* the requestKey of the last call

popupVars == <<lastDemographicRequest, demographicAbortController, demographicInfoWindow,
               popup, popupCount, clicks, clicked>>

VARIABLES
  isLoading,        \* module variables of googleMapsLoader.ts
  isLoaded,
  loadPromise,      \* the load whose promise loadPromise holds, 0 when null
  promise,          \* per load: "none", "pending", "resolved", "rejected"
  script,           \* per load: its script element is in the document, and how far it is
  attempts,         \* per load: attempts of its readiness poll
  google,           \* window.google: "none", "importLibrary", "Map"
  loads,            \* loads started so far
  loaderCalls,      \* calls of loadGoogleMapsScript so far
  loaderCall        \* what the last call returned and whether it appended a script

loaderVars == <<isLoading, isLoaded, loadPromise, promise, script, attempts, google,
                loads, loaderCalls, loaderCall>>

VARIABLES
  lensCall          \* a call of calculateCircleIntersectionArea in floating-point arithmetic

lensVars == <<lensCall>>

vars == <<searchVars, bizVars, enrichVars, demoVars, geoVars, circleVars,
          popupVars, loaderVars, lensVars>>

\* notified: the calls a search has made to the consumer's callbacks, in order.
NoSearch == [lookup |-> "none", aborted |-> FALSE, enrich |-> "none", quotaTimer |-> NoTimer,
             notified |-> <<>>]

InitSearch ==
  /\ mapInstance = FALSE
  /\ businessType = FALSE
  /\ quotaExhausted = FALSE
  /\ error = ""
  /\ lastSearchAge = MinTicks
  /\ searchTimeout = NoTimer
  /\ searchAbortController = 0
  /\ search = [s \in SearchIds |-> NoSearch]
  /\ nextId = 0
  /\ markers = 0
  /\ businesses = <<0, "none">>
  /\ overlaps = 0
  /\ isSearchingBusinesses = FALSE
  /\ requests = 0
  /\ timerKind = "none"
  /\ quotaErrors = 0
  /\ sinceDispatch = MinTicks
  /\ sinceQuotaError = QuotaTicks
  /\ staleEffects = {}
  /\ lastDispatch = "none"

\* ------------------------------------------------------- the search effect
\* Variant: the effect schedules the search with no delay.
MinDelayNone(timeSinceLastSearch) == 0

\* const minDelay = Math.max(0, MIN_SEARCH_INTERVAL - timeSinceLastSearch)
MinDelay(timeSinceLastSearch) == Max(0, MinTicks - timeSinceLastSearch)

\* mapInstanceRef.current && businessType && searchCenter && !quotaExhausted
EffectGuard(map, type, quota) == map /\ type /\ ~quota

\* What scheduled the timer: a request of the user, deferred when it arrives
\* less than MIN_SEARCH_INTERVAL after the last search, or a state change of
\* the component itself.
Scheduled(byRequest, timeSinceLastSearch) ==
  IF ~byRequest THEN "auto"
  ELSE IF timeSinceLastSearch < MinTicks THEN "requestDeferred"
  ELSE "request"

\* The search useEffect runs again: the cleanup of the previous run clears the
\* pending timer, then the body schedules searchBusinesses after minDelay when
\* its guard holds.  byRequest tells a run caused by the user's request from
\* one caused by a state change of the component.
SearchEffect(byRequest, type, quota) ==
  IF EffectGuard(mapInstance, type, quota)
    THEN /\ searchTimeout' = MinDelay(lastSearchAge)
         /\ timerKind' = Scheduled(byRequest, lastSearchAge)
    ELSE /\ searchTimeout' = NoTimer
         /\ timerKind' = "none"

\* ------------------------------------------------------------ user actions
\* App.handleBusinessSearch: a business type is submitted.
handleBusinessSearch ==
  /\ requests < MaxRequests
  /\ requests' = requests + 1
  /\ businessType' = TRUE
  /\ businesses' = <<0, "none">>
  /\ overlaps' = 0
  /\ SearchEffect(TRUE, TRUE, quotaExhausted)
  /\ UNCHANGED <<mapInstance, quotaExhausted, error, lastSearchAge, searchAbortController,
                 search, nextId, markers, isSearchingBusinesses, quotaErrors,
                 sinceDispatch, sinceQuotaError, staleEffects, lastDispatch>>
  /\ UNCHANGED <<bizVars, enrichVars, demoVars, geoVars, circleVars, popupVars, loaderVars, lensVars>>

\* A search parameter prop changes (search radius, business count, rating
\* filter, coverage radius, circles, heatmap): the effect runs again.
ParameterChange ==
  /\ requests < MaxRequests
  /\ businessType
  /\ requests' = requests + 1
  /\ SearchEffect(TRUE, businessType, quotaExhausted)
  /\ UNCHANGED <<mapInstance, businessType, quotaExhausted, error, lastSearchAge,
                 searchAbortController, search, nextId, markers, businesses, overlaps,
                 isSearchingBusinesses, quotaErrors, sinceDispatch, sinceQuotaError,
                 staleEffects, lastDispatch>>
  /\ UNCHANGED <<bizVars, enrichVars, demoVars, geoVars, circleVars, popupVars, loaderVars, lensVars>>

\* App.handleCitySelect: the center changes and the business type is cleared.
handleCitySelect ==
  /\ businessType
  /\ businessType' = FALSE
  /\ businesses' = <<0, "none">>
  /\ overlaps' = 0
  /\ SearchEffect(FALSE, FALSE, quotaExhausted)
  /\ UNCHANGED <<mapInstance, quotaExhausted, error, lastSearchAge, searchAbortController,
                 search, nextId, markers, isSearchingBusinesses, requests, quotaErrors,
                 sinceDispatch, sinceQuotaError, staleEffects, lastDispatch>>
  /\ UNCHANGED <<bizVars, enrichVars, demoVars, geoVars, circleVars, popupVars, loaderVars, lensVars>>

\* initializeMap: the map instance is created once the script has loaded.
initializeMap ==
  /\ ~mapInstance
  /\ mapInstance' = TRUE
  /\ UNCHANGED <<businessType, quotaExhausted, error, lastSearchAge, searchTimeout,
                 searchAbortController, search, nextId, markers, businesses, overlaps,
                 isSearchingBusinesses, requests, timerKind, quotaErrors,
                 sinceDispatch, sinceQuotaError, staleEffects, lastDispatch>>
  /\ UNCHANGED <<bizVars, enrichVars, demoVars, geoVars, circleVars, popupVars, loaderVars, lensVars>>

\* --------------------------------------------------------- searchBusinesses
\* timeSinceLastSearch < MIN_SEARCH_INTERVAL: the call returns without searching.
RateLimited(timeSinceLastSearch) == timeSinceLastSearch < MinTicks

\* Variant: the dispatch does not record the time of the search.
LastSearchAgeNotRecorded(age) == age

\* lastSearchTimeRef.current = now: the age of the last search after a dispatch.
LastSearchAgeAfterDispatch(age) == 0

\* searchAbortControllerRef.current.abort() of the previous search, new controller for s.
AbortPrevious(srch, prev, s) ==
  [x \in SearchIds |->
     IF x = prev THEN [srch[x] EXCEPT !.aborted = TRUE]
     ELSE IF x = s THEN [srch[x] EXCEPT !.lookup = "pending"]
     ELSE srch[x]]

\* A call of one of the consumer's callbacks: which one, from which function,
\* with which list.
Notification(call, by, list) == [call |-> call, by |-> by, list |-> list]
Notify(srch, s, calls) == [srch EXCEPT ![s].notified = @ \o calls]

\* onSearchStartRef.current?.() of line 909
onSearchStart == Notification("onSearchStart", "searchBusinesses", <<>>)

\* The timer of the search effect fires and calls searchBusinesses(), which
\* returns early on its guards or dispatches the places lookup.
searchBusinesses ==
  /\ searchTimeout = 0
  /\ searchTimeout' = NoTimer
  /\ timerKind' = "none"
  /\ IF ~mapInstance \/ ~businessType \/ quotaExhausted \/ RateLimited(lastSearchAge)
       THEN UNCHANGED <<lastSearchAge, searchAbortController, search, nextId,
                        isSearchingBusinesses, sinceDispatch, lastDispatch>>
       ELSE /\ nextId' = nextId + 1
            /\ search' = Notify(AbortPrevious(search, searchAbortController, nextId + 1),
                                nextId + 1, <<onSearchStart>>)
            /\ searchAbortController' = nextId + 1
            /\ lastSearchAge' = LastSearchAgeAfterDispatch(lastSearchAge)
            /\ isSearchingBusinesses' = TRUE
            /\ sinceDispatch' = 0
            /\ lastDispatch' = timerKind
  /\ UNCHANGED <<mapInstance, businessType, quotaExhausted, error, markers, businesses,
                 overlaps, requests, quotaErrors, sinceQuotaError, staleEffects>>
  /\ UNCHANGED <<bizVars, enrichVars, demoVars, geoVars, circleVars, popupVars, loaderVars, lensVars>>

\* ------------------------------------------------- places lookup completes
\* The effects a superseded search has on the consumer, recorded for history.
Stale(s, kinds) == IF search[s].aborted THEN {<<s, k>> : k \in kinds} ELSE {}

\* What Place.searchNearby resolves with: no place, places whose circles are
\* apart, or places of which the first two have overlapping circles.
Found == {"none", "apart", "overlapping"}
PlaceId(k) == <<"place", k>>

\* detailedBusinesses (lines 968, 1099-1104): the businesses shown, in the
\* order of the places, without demographics.
DetailedBusinesses(found) ==
  IF found = "none" THEN <<>>
  ELSE [k \in 1..NumBusinesses |-> [place_id |-> PlaceId(k), demographics |-> FALSE]]

\* findOverlappingBusinesses(businessesWithLocation) of line 992
DetectedOverlaps(found) ==
  IF found = "overlapping"
    THEN <<[business1 |-> PlaceId(1), business2 |-> PlaceId(2)]>>
    ELSE <<>>

onSearchComplete == Notification("onSearchComplete", "searchBusinesses", <<>>)
onOverlapsDetected(list) == Notification("onOverlapsDetected", "searchBusinesses", list)
onBusinessesFound(by, list) == Notification("onBusinessesFound", by, list)

\* The callbacks of a lookup that resolved, for a search that is not aborted
\* (lines 1000, 1113, 1122, 1161-1164).
ResultsNotified(found) ==
  IF found = "none"
    THEN <<onBusinessesFound("searchBusinesses", <<>>), onSearchComplete>>
    ELSE <<onOverlapsDetected(DetectedOverlaps(found)),
           onBusinessesFound("searchBusinesses", DetailedBusinesses(found)),
           onSearchComplete>>

\* Place.searchNearby of search s resolves (lines 937-1123, 1161-1164).  The
\* code between the two checks of currentController.signal.aborted is
\* synchronous, so the second check sees what the first saw.
PlacesResolve(s, found) ==
  /\ search[s].lookup = "pending"
  /\ IF search[s].aborted
       THEN /\ search' = [search EXCEPT ![s].lookup = "settled"]
            /\ UNCHANGED <<markers, businesses, overlaps, isSearchingBusinesses>>
       ELSE /\ search' = Notify([search EXCEPT ![s].lookup = "settled",
                                               ![s].enrich = IF found # "none" THEN "running"
                                                                               ELSE "none"],
                                s, ResultsNotified(found))
            /\ markers' = IF found # "none" THEN s ELSE 0
            /\ overlaps' = IF found # "none" THEN s ELSE overlaps
            /\ businesses' = IF found # "none" THEN <<s, "list">> ELSE <<s, "empty">>
            /\ isSearchingBusinesses' = FALSE
  /\ UNCHANGED <<mapInstance, businessType, quotaExhausted, error, lastSearchAge,
                 searchTimeout, searchAbortController, nextId, requests, timerKind,
                 quotaErrors, sinceDispatch, sinceQuotaError, staleEffects,
                 lastDispatch>>
  /\ UNCHANGED <<bizVars, enrichVars, demoVars, geoVars, circleVars, popupVars, loaderVars, lensVars>>

\* Variant: the quota branch sets no timer.
QuotaTimerNotSet(srch, s) == srch

\* setTimeout(..., QUOTA_RESET_DELAY) of the quota branch.
QuotaTimerAfterError(srch, s) == [srch EXCEPT ![s].quotaTimer = QuotaTicks]

\* Variant: the catch block returns, as its AbortError branch does.
IsSearchingAfterCatchReturns(aborted, isSearching) == isSearching

\* if (!currentController.signal.aborted) onSearchCompleteRef.current?.()
\* after the catch block (lines 1161-1164), with App.handleSearchComplete.
IsSearchingAfterCatch(aborted, isSearching) == IF aborted THEN isSearching ELSE FALSE

\* The callbacks of the catch block and of the lines after it (1158, 1161-1164).
ErrorNotified(aborted) ==
  <<onBusinessesFound("searchBusinesses", <<>>)>>
    \o (IF aborted THEN <<>> ELSE <<onSearchComplete>>)

\* The places lookup of search s rejects (catch block, lines 1124-1164).  The
\* lookup takes no abort signal, so the rejection is never an AbortError.
PlacesReject(s, kind) ==
  /\ search[s].lookup = "pending"
  /\ kind = "quota" => quotaErrors < MaxQuotaErrors
  /\ error' = kind
  /\ IF kind = "quota"
       THEN /\ quotaExhausted' = TRUE
            /\ quotaErrors' = quotaErrors + 1
            /\ sinceQuotaError' = 0
            /\ search' = Notify([QuotaTimerAfterError(search, s) EXCEPT ![s].lookup = "settled"],
                                s, ErrorNotified(search[s].aborted))
            /\ IF ~quotaExhausted
                 THEN SearchEffect(FALSE, businessType, TRUE)
                 ELSE UNCHANGED <<searchTimeout, timerKind>>
       ELSE /\ search' = Notify([search EXCEPT ![s].lookup = "settled"],
                                s, ErrorNotified(search[s].aborted))
            /\ UNCHANGED <<quotaExhausted, quotaErrors, sinceQuotaError, searchTimeout,
                           timerKind>>
  /\ markers' = 0
  /\ businesses' = <<s, "empty">>
  /\ isSearchingBusinesses' = IsSearchingAfterCatch(search[s].aborted, isSearchingBusinesses)
  /\ staleEffects' = staleEffects \cup Stale(s, {"error", "clearMarkers", "businessesFound"})
  /\ UNCHANGED <<mapInstance, businessType, lastSearchAge, searchAbortController, nextId,
                 overlaps, requests, sinceDispatch, lastDispatch>>
  /\ UNCHANGED <<bizVars, enrichVars, demoVars, geoVars, circleVars, popupVars, loaderVars, lensVars>>

\* Variant: the businesses in the reverse order.
BusinessesWithDemographicsReversed(list) ==
  [k \in 1..Len(list) |-> [list[Len(list) + 1 - k] EXCEPT !.demographics = TRUE]]

\* businessesWithDemographics (lines 831-863): businesses.map and Promise.all
\* give one element per business, in the order of the businesses.
BusinessesWithDemographics(list) ==
  [k \in 1..Len(list) |-> [list[k] EXCEPT !.demographics = TRUE]]

\* The businesses argument of fetchBusinessDemographics (line 1119): the list
\* search s sent at line 1113.
BusinessesOf(s) ==
  LET log == search[s].notified
      k == CHOOSE k \in 1..Len(log) : log[k].call = "onBusinessesFound"
  IN  log[k].list

\* fetchBusinessDemographics of search s reaches the end of Promise.all
\* (lines 863-869): the enriched list is delivered unless the signal is aborted.
EnrichmentComplete(s) ==
  /\ search[s].enrich = "running"
  /\ search' = IF search[s].aborted
                 THEN [search EXCEPT ![s].enrich = "done"]
                 ELSE Notify([search EXCEPT ![s].enrich = "done"], s,
                             <<onBusinessesFound("fetchBusinessDemographics",
                                                 BusinessesWithDemographics(BusinessesOf(s)))>>)
  /\ businesses' = IF search[s].aborted THEN businesses ELSE <<s, "enriched">>
  /\ UNCHANGED <<mapInstance, businessType, quotaExhausted, error, lastSearchAge,
                 searchTimeout, searchAbortController, nextId, markers, overlaps,
                 isSearchingBusinesses, requests, timerKind, quotaErrors,
                 sinceDispatch, sinceQuotaError, staleEffects, lastDispatch>>
  /\ UNCHANGED <<bizVars, enrichVars, demoVars, geoVars, circleVars, popupVars, loaderVars, lensVars>>

\* The quota timer of search s fires (lines 1142-1146): the flag and the
\* message are cleared; when the flag changes, the search effect runs again.
QuotaReset(s) ==
  /\ search[s].quotaTimer = 0
  /\ search' = [search EXCEPT ![s].quotaTimer = NoTimer]
  /\ quotaExhausted' = FALSE
  /\ error' = ""
  /\ IF quotaExhausted
       THEN SearchEffect(FALSE, businessType, FALSE)
       ELSE UNCHANGED <<searchTimeout, timerKind>>
  /\ UNCHANGED <<mapInstance, businessType, lastSearchAge, searchAbortController, nextId,
                 markers, businesses, overlaps, isSearchingBusinesses, requests,
                 quotaErrors, sinceDispatch, sinceQuotaError, staleEffects, lastDispatch>>
  /\ UNCHANGED <<bizVars, enrichVars, demoVars, geoVars, circleVars, popupVars, loaderVars, lensVars>>

\* ---------------------------------------------------------------------- time
Elapse(t) == IF t > 0 THEN t - 1 ELSE t

\* One tick passes: ages grow, the remaining delay of every timer shrinks.
Tick ==
  /\ lastSearchAge' = Min(MinTicks, lastSearchAge + 1)
  /\ sinceDispatch' = Min(MinTicks, sinceDispatch + 1)
  /\ sinceQuotaError' = Min(QuotaTicks, sinceQuotaError + 1)
  /\ searchTimeout' = Elapse(searchTimeout)
  /\ search' = [s \in SearchIds |-> [search[s] EXCEPT !.quotaTimer = Elapse(@)]]
  /\ UNCHANGED <<mapInstance, businessType, quotaExhausted, error, searchAbortController,
                 nextId, markers, businesses, overlaps, isSearchingBusinesses, requests,
                 timerKind, quotaErrors, staleEffects, lastDispatch>>
  /\ UNCHANGED <<bizVars, enrichVars, demoVars, geoVars, circleVars, popupVars, loaderVars, lensVars>>

\* ------------------------------------------- fetchBusinessDemographics
Businesses == 1..NumBusinesses

\* No call of fetchBusinessDemographics is in progress.
BizIdle ==
  /\ bizLocation = [i \in Businesses |-> FALSE]
  /\ bizAborted = FALSE
  /\ bizPc = [i \in Businesses |-> "done"]
  /\ bizResult = [i \in Businesses |-> "plain"]
  /\ bizOutcome = "idle"
  /\ bizCalls = 0
  /\ bizCallsAborted = 0

\* The state right after the call (lines 826-835): businesses.map has run every
\* mapper up to its first await.  The call follows a check of the signal in
\* the same synchronous block, so the signal is not aborted yet; a business
\* without location is returned as it is, the others wait index * 100 ms.
BizCalled ==
  /\ bizLocation \in [Businesses -> BOOLEAN]
  /\ bizAborted = FALSE
  /\ bizPc = [i \in Businesses |-> IF bizLocation[i] THEN "delay" ELSE "done"]
  /\ bizResult = [i \in Businesses |-> IF bizLocation[i] THEN "pending" ELSE "plain"]
  /\ bizOutcome = "running"
  /\ bizCalls = 0
  /\ bizCallsAborted = 0

\* searchBusinesses of a newer search calls abort() on the controller of this one.
BizAbort ==
  /\ ~bizAborted
  /\ bizAborted' = TRUE
  /\ UNCHANGED <<bizLocation, bizPc, bizResult, bizOutcome, bizCalls, bizCallsAborted>>
  /\ UNCHANGED <<searchVars, enrichVars, demoVars, geoVars, circleVars, popupVars, loaderVars, lensVars>>

\* The delay of business i has passed (lines 835-837); the delays grow with the
\* index, so the timers fire in index order.
BizDelayElapsed(i) ==
  /\ bizPc[i] = "delay"
  /\ \A j \in Businesses : j < i => bizPc[j] # "delay"
  /\ IF bizAborted
       THEN /\ bizPc' = [bizPc EXCEPT ![i] = "done"]
            /\ bizResult' = [bizResult EXCEPT ![i] = "plain"]
       ELSE /\ bizPc' = [bizPc EXCEPT ![i] = "fetching"]
            /\ UNCHANGED bizResult
  /\ UNCHANGED <<bizLocation, bizAborted, bizOutcome, bizCalls, bizCallsAborted>>
  /\ UNCHANGED <<searchVars, enrichVars, demoVars, geoVars, circleVars, popupVars, loaderVars, lensVars>>

\* What the mapper of a business returns for an outcome of fetchDemographics
\* (lines 839-859): the value is attached, a rejection becomes an error value.
BusinessWithDemographics(outcome) ==
  IF outcome = "rejects" THEN "failed" ELSE outcome

\* fetchDemographics of business i settles (lines 840-859).  With the signal
\* aborted its fetch rejects with an AbortError, which fetchDemographics turns
\* into the 'Request cancelled' value.  fetchDemographics catches everything;
\* "rejects" exercises the mapper's own catch all the same.
BizFetchSettles(i, outcome) ==
  /\ bizPc[i] = "fetching"
  /\ bizAborted => outcome \in {"cancelled", "rejects"}
  /\ ~bizAborted => outcome \in {"data", "error", "rejects"}
  /\ bizPc' = [bizPc EXCEPT ![i] = "done"]
  /\ bizResult' = [bizResult EXCEPT ![i] = BusinessWithDemographics(outcome)]
  /\ UNCHANGED <<bizLocation, bizAborted, bizOutcome, bizCalls, bizCallsAborted>>
  /\ UNCHANGED <<searchVars, enrichVars, demoVars, geoVars, circleVars, popupVars, loaderVars, lensVars>>

\* Variant: the list is delivered without looking at the signal.
DeliverAlways(aborted) == TRUE

\* if (!abortSignal.aborted) before onBusinessesFoundRef.current?.(...)
DeliverAllowed(aborted) == ~aborted

\* Promise.all has resolved (lines 863-874): the list is delivered unless the
\* signal is aborted; an exception of the callback is caught by the outer catch.
BizSettle(callbackThrows) ==
  /\ bizOutcome = "running"
  /\ \A i \in Businesses : bizPc[i] = "done"
  /\ IF DeliverAllowed(bizAborted)
       THEN /\ bizCalls' = bizCalls + 1
            /\ bizCallsAborted' = bizCallsAborted + (IF bizAborted THEN 1 ELSE 0)
            /\ bizOutcome' = IF callbackThrows THEN "caught" ELSE "delivered"
       ELSE /\ ~callbackThrows
            /\ bizOutcome' = "silent"
            /\ UNCHANGED <<bizCalls, bizCallsAborted>>
  /\ UNCHANGED <<bizLocation, bizAborted, bizPc, bizResult>>
  /\ UNCHANGED <<searchVars, enrichVars, demoVars, geoVars, circleVars, popupVars, loaderVars, lensVars>>

\* ------------------------ enrichRecommendationsWithDemographics
RecIds == 1..MaxRecs
\* The fields of a point other than id and realDemographics (lat, lng,
\* tortoiseLevel, reasoning, demographics, proximityAnalysis), as one value
\* that differs from point to point.
Payload(id) == <<"point", id>>
RecommendedPoint == {[id |-> k, payload |-> Payload(k), realDemographics |-> "unset"] : k \in RecIds}
SeqsUpTo(S, n) == UNION {[1..k -> S] : k \in 0..n}
Indices == 1..MaxRecs
NoPromise == [state |-> "pending", value |-> [id |-> 0, payload |-> Payload(0), realDemographics |-> "unset"]]

EnrichIdle ==
  /\ recommendations = <<>>
  /\ enrichStatus = "idle"
  /\ lookups = [i \in Indices |-> 0]
  /\ lookupOutcome = [i \in Indices |-> "pending"]
  /\ mapped = [i \in Indices |-> NoPromise]
  /\ completionOrder = <<>>
  /\ enrichedRecommendations = <<>>

\* Before the call: any sequence of recommended points without realDemographics.
EnrichInput ==
  /\ recommendations \in SeqsUpTo(RecommendedPoint, MaxRecs)
  /\ enrichStatus = "idle"
  /\ lookups = [i \in Indices |-> 0]
  /\ lookupOutcome = [i \in Indices |-> "pending"]
  /\ mapped = [i \in Indices |-> NoPromise]
  /\ completionOrder = <<>>
  /\ enrichedRecommendations = <<>>

\* fetchDemographics calls the mapper of one recommendation issues (line 95).
LookupsPerPoint == 1

\* The call (lines 91-95): recommendations.map starts one mapper per element,
\* each of which calls fetchDemographics and awaits it.
enrichRecommendationsWithDemographics ==
  /\ enrichStatus = "idle"
  /\ enrichStatus' = "running"
  /\ lookups' = [i \in Indices |-> IF i <= Len(recommendations) THEN LookupsPerPoint ELSE 0]
  /\ UNCHANGED <<recommendations, lookupOutcome, mapped, completionOrder,
                 enrichedRecommendations>>
  /\ UNCHANGED <<searchVars, bizVars, demoVars, geoVars, circleVars, popupVars, loaderVars, lensVars>>

\* The realDemographics value for an outcome of the lookup: what
\* fetchDemographics resolved with (lines 96-99), or the error of the catch
\* block (lines 100-108).
RealDemographics(outcome) ==
  IF outcome = "data" THEN "DemographicsData"
  ELSE IF outcome = "error" THEN "DemographicsError"
  ELSE "DemographicsError: Failed to fetch demographic data"

\* Variant: only a successful lookup is attached.
WithRealDemographicsOnSuccess(recommendation, outcome) ==
  IF outcome = "data"
    THEN [recommendation EXCEPT !.realDemographics = RealDemographics(outcome)]
    ELSE recommendation

\* Variant: the object is built from the id alone, without the spread.
WithRealDemographicsFromId(recommendation, outcome) ==
  [id |-> recommendation.id, payload |-> Payload(0),
   realDemographics |-> RealDemographics(outcome)]

\* { ...recommendation, realDemographics }
WithRealDemographics(recommendation, outcome) ==
  [recommendation EXCEPT !.realDemographics = RealDemographics(outcome)]

\* Variant: the mapper has no try/catch, a rejected lookup rejects it.
MapperWithoutCatch(recommendation, outcome) ==
  IF outcome = "rejects"
    THEN [state |-> "rejected", value |-> recommendation]
    ELSE [state |-> "fulfilled",
          value |-> [recommendation EXCEPT !.realDemographics = RealDemographics(outcome)]]

\* The promise of one mapper once its lookup has ended (lines 93-110): the
\* try/catch makes it fulfilled for every outcome.
MapperSettles(recommendation, outcome) ==
  [state |-> "fulfilled", value |-> WithRealDemographics(recommendation, outcome)]

\* The lookup of input element i ends: fetchDemographics resolves with data or
\* with an error value, or rejects.
LookupSettles(i, outcome) ==
  /\ enrichStatus = "running"
  /\ i \in 1..Len(recommendations)
  /\ lookupOutcome[i] = "pending"
  /\ lookupOutcome' = [lookupOutcome EXCEPT ![i] = outcome]
  /\ mapped' = [mapped EXCEPT ![i] = MapperSettles(recommendations[i], outcome)]
  /\ completionOrder' = Append(completionOrder, i)
  /\ UNCHANGED <<recommendations, enrichStatus, lookups, enrichedRecommendations>>
  /\ UNCHANGED <<searchVars, bizVars, demoVars, geoVars, circleVars, popupVars, loaderVars, lensVars>>

\* Variant: the values are collected in completion order.
PromiseAllByCompletion(promises, order) == [i \in 1..Len(order) |-> promises[order[i]].value]

\* The values Promise.all resolves with: one per input promise, in input order.
PromiseAllValues(promises, order) == [i \in 1..Len(order) |-> promises[i].value]

\* await Promise.all(...) (lines 92-113): the call rejects as soon as one
\* mapper has rejected and resolves once every mapper is fulfilled.
PromiseAllSettles ==
  /\ enrichStatus = "running"
  /\ IF \E i \in 1..Len(recommendations) : mapped[i].state = "rejected"
       THEN /\ enrichStatus' = "rejected"
            /\ UNCHANGED enrichedRecommendations
       ELSE /\ \A i \in 1..Len(recommendations) : mapped[i].state = "fulfilled"
            /\ enrichStatus' = "resolved"
            /\ enrichedRecommendations' = PromiseAllValues(mapped, completionOrder)
  /\ UNCHANGED <<recommendations, lookups, lookupOutcome, mapped, completionOrder>>
  /\ UNCHANGED <<searchVars, bizVars, demoVars, geoVars, circleVars, popupVars, loaderVars, lensVars>>

\* ------------------------------------------------------- fetchDemographics
\* A field of the statistics row as the service sends it: a string of digits
\* with an optional sign, JSON null, a text that is no number, or no field.
Digits(n) == <<"digits", n>>
Undefined == <<"undefined", 0>>
Null == <<"null", 0>>
Text == <<"N/A", 0>>
\* The value the statistics service sends for an estimate it does not have.
NoEstimate == Digits(0 - 666666666)
NaN == <<"NaN", 0>>

RawPopulation == {Undefined, Null, Text, Digits(0), Digits(60)}
RawDegrees == {Undefined, Text, Digits(0), Digits(10)}
RawMedian == {Null, NoEstimate, Digits(0), Digits(55000)}

\* dataObj (lines 118-123): the fields of the second row under the headers of
\* the first.
StatisticsRows ==
  [B01003_001E : RawPopulation, B19013_001E : RawMedian, B25077_001E : RawMedian,
   B15003_022E : RawDegrees, B15003_023E : RawDegrees,
   B15003_024E : RawDegrees, B15003_025E : RawDegrees]
NoRow ==
  [B01003_001E |-> Undefined, B19013_001E |-> Undefined, B25077_001E |-> Undefined,
   B15003_022E |-> Undefined, B15003_023E |-> Undefined,
   B15003_024E |-> Undefined, B15003_025E |-> Undefined]

\* parseInt: the leading integer of the text, NaN when there is none.
parseInt(raw) == IF raw[1] = "digits" THEN raw ELSE NaN

\* parseInt(x) || 0: NaN and 0 are falsy.
OrZero(parsed) == IF parsed = NaN \/ parsed[2] = 0 THEN 0 ELSE parsed[2]

Abs(n) == IF n < 0 THEN 0 - n ELSE n
RECURSIVE GCD(_, _)
GCD(a, b) == IF b = 0 THEN Abs(a) ELSE GCD(b, a % Abs(b))

\* The quotient n / d of two integers in lowest terms with a positive
\* denominator; a division by zero gives no number.
Quotient(n, d) ==
  IF d = 0 THEN [num |-> 0, den |-> 0]
  ELSE LET g == GCD(n, d)
           s == IF d < 0 THEN 0 - 1 ELSE 1
       IN  [num |-> s * (n \div g), den |-> s * (d \div g)]
Zero == [num |-> 0, den |-> 1]

\* Variant: the quotient is taken whatever the population is.
CollegePercentUnguarded(collegeGrads, population) == Quotient(collegeGrads * 100, population)

\* population > 0 ? (collegeGrads / population) * 100 : 0
CollegePercent(collegeGrads, population) ==
  IF population > 0 THEN Quotient(collegeGrads * 100, population) ELSE Zero

\* The value returned for a statistics row (lines 125-146).
DemographicsData(dataObj) ==
  LET population == OrZero(parseInt(dataObj.B01003_001E))
      medianIncome == OrZero(parseInt(dataObj.B19013_001E))
      medianHomeValue == OrZero(parseInt(dataObj.B25077_001E))
      bachelors == OrZero(parseInt(dataObj.B15003_022E))
      masters == OrZero(parseInt(dataObj.B15003_023E))
      professional == OrZero(parseInt(dataObj.B15003_024E))
      doctorate == OrZero(parseInt(dataObj.B15003_025E))
      collegeGrads == bachelors + masters + professional + doctorate
  IN  [kind |-> "DemographicsData",
       population |-> population,
       medianIncome |-> medianIncome,
       medianHomeValue |-> medianHomeValue,
       collegePercent |-> CollegePercent(collegeGrads, population)]

NoDetails == "undefined"
NoResult == [kind |-> "pending"]
DemographicsError(message, details) ==
  [kind |-> "DemographicsError", error |-> message, details |-> details]
Rejected(err) == [kind |-> "rejected", error |-> err.name, details |-> err.message]

AbortError == [name |-> "AbortError", message |-> "The operation was aborted"]

\* What a step throws for the way its lookup ended (lines 37-71 and 95-115).
Thrown(step, outcome) ==
  IF outcome = "abort" THEN AbortError
  ELSE IF outcome = "network" THEN [name |-> "TypeError", message |-> "Failed to fetch"]
  ELSE IF outcome = "http"
    THEN [name |-> "Error",
          message |-> IF step = "geo" THEN "FCC API error" ELSE "Census API error"]
  ELSE IF outcome = "empty"
    THEN [name |-> "Error",
          message |-> IF step = "geo" THEN "Empty response from FCC API"
                                      ELSE "Empty response from Census API"]
  ELSE IF outcome = "malformed"
    THEN [name |-> "Error",
          message |-> IF step = "geo" THEN "Invalid JSON response from FCC API"
                                      ELSE "Invalid JSON response from Census API"]
  ELSE IF outcome = "noMatch"
    THEN [name |-> "Error", message |-> "Location not found in census data"]
  ELSE IF outcome = "missingCode"
    THEN [name |-> "Error", message |-> "Missing FIPS data"]
  ELSE [name |-> "Error", message |-> "No demographic data available for this location"]

\* Variant: the catch block has no branch for the AbortError.
CatchWithoutAbortBranch(err) == DemographicsError("Failed to fetch demographics", err.message)

\* Variant: the catch block handles the AbortError only and rethrows the rest.
CatchAbortOnly(err) ==
  IF err.name = "AbortError"
    THEN DemographicsError("Request cancelled", NoDetails)
    ELSE Rejected(err)

\* The catch block (lines 148-159).
CatchError(err) ==
  IF err.name = "AbortError"
    THEN DemographicsError("Request cancelled", NoDetails)
    ELSE DemographicsError("Failed to fetch demographics", err.message)

\* How a lookup can end: once the signal is aborted, fetch and text() reject
\* with the AbortError; without a signal, or with one that is not aborted,
\* they end by themselves.
Ends(outcome, outcomes) ==
  IF abortSignal = "aborted" THEN outcome = "abort" ELSE outcome \in outcomes \ {"abort"}

FetchOutcomes == {"ok", "http", "network", "abort"}
GeoBodyOutcomes == {"ok", "network", "empty", "malformed", "noMatch", "missingCode", "abort"}
CensusBodyOutcomes == {"ok", "network", "empty", "malformed", "fewRows", "abort"}

\* No call of fetchDemographics has been made.
DemoIdle ==
  /\ abortSignal = "none"
  /\ demoPc = "idle"
  /\ demoResult = NoResult
  /\ demoRequests = <<>>
  /\ demoGeo = "none"
  /\ demoCensus = "none"
  /\ demoRow = NoRow
  /\ abortedAt = "never"

\* Before the call: the caller passes a signal or none (line 30).
DemoInput ==
  /\ abortSignal \in {"none", "active"}
  /\ demoPc = "idle"
  /\ demoResult = NoResult
  /\ demoRequests = <<>>
  /\ demoGeo = "none"
  /\ demoCensus = "none"
  /\ demoRow = NoRow
  /\ abortedAt = "never"

\* The owner of the controller calls abort().
DemoAbort ==
  /\ abortSignal = "active"
  /\ abortSignal' = "aborted"
  /\ abortedAt' = demoPc
  /\ UNCHANGED <<demoPc, demoResult, demoRequests, demoGeo, demoCensus, demoRow>>
  /\ UNCHANGED <<searchVars, bizVars, enrichVars, geoVars, circleVars, popupVars, loaderVars, lensVars>>

\* The end of the call with what the try block threw.
DemoThrows(err) ==
  /\ demoPc' = "done"
  /\ demoResult' = CatchError(err)

\* fetch(url, { signal }): with the signal aborted the promise is rejected at
\* once and nothing is sent.
DemoFetch(url, pc) ==
  IF abortSignal = "aborted"
    THEN /\ DemoThrows(AbortError)
         /\ UNCHANGED demoRequests
    ELSE /\ demoPc' = pc
         /\ demoRequests' = Append(demoRequests, url)
         /\ UNCHANGED demoResult

\* The call up to its first await (lines 32-37).
fetchDemographics ==
  /\ demoPc = "idle"
  /\ DemoFetch("geo", "geoFetch")
  /\ UNCHANGED <<abortSignal, demoGeo, demoCensus, demoRow, abortedAt>>
  /\ UNCHANGED <<searchVars, bizVars, enrichVars, geoVars, circleVars, popupVars, loaderVars, lensVars>>

\* await fetch(geoUrl) ends (lines 37-43).
GeoFetchSettles(outcome) ==
  /\ demoPc = "geoFetch"
  /\ Ends(outcome, FetchOutcomes)
  /\ IF outcome = "ok"
       THEN /\ demoPc' = "geoBody"
            /\ UNCHANGED <<demoResult, demoGeo>>
       ELSE /\ DemoThrows(Thrown("geo", outcome))
            /\ demoGeo' = outcome
  /\ UNCHANGED <<abortSignal, demoRequests, demoCensus, demoRow, abortedAt>>
  /\ UNCHANGED <<searchVars, bizVars, enrichVars, geoVars, circleVars, popupVars, loaderVars, lensVars>>

\* Variant: the codes are not checked before they are used.
GeoBodyThrowsWithoutCodeCheck(outcome) == outcome \notin {"ok", "missingCode"}

\* The checks of the geography body (lines 44-71): each throws unless the body
\* is JSON with a first result that has a state, a county and a block code.
GeoBodyThrows(outcome) == outcome # "ok"

\* await geoResponse.text() ends (lines 43-95): the body is checked, the codes
\* are taken from it and the statistics request is sent.
GeoBodySettles(outcome) ==
  /\ demoPc = "geoBody"
  /\ Ends(outcome, GeoBodyOutcomes)
  /\ demoGeo' = outcome
  /\ IF ~GeoBodyThrows(outcome)
       THEN DemoFetch("census", "censusFetch")
       ELSE /\ DemoThrows(Thrown("geo", outcome))
            /\ UNCHANGED demoRequests
  /\ UNCHANGED <<abortSignal, demoCensus, demoRow, abortedAt>>
  /\ UNCHANGED <<searchVars, bizVars, enrichVars, geoVars, circleVars, popupVars, loaderVars, lensVars>>

\* await fetch(censusUrl) ends (lines 95-101).
CensusFetchSettles(outcome) ==
  /\ demoPc = "censusFetch"
  /\ Ends(outcome, FetchOutcomes)
  /\ IF outcome = "ok"
       THEN /\ demoPc' = "censusBody"
            /\ UNCHANGED <<demoResult, demoCensus>>
       ELSE /\ DemoThrows(Thrown("census", outcome))
            /\ demoCensus' = outcome
  /\ UNCHANGED <<abortSignal, demoRequests, demoGeo, demoRow, abortedAt>>
  /\ UNCHANGED <<searchVars, bizVars, enrichVars, geoVars, circleVars, popupVars, loaderVars, lensVars>>

\* await censusResponse.text() ends (lines 101-146): the body is checked and
\* the value is computed from its second row.
CensusBodySettles(outcome) ==
  /\ demoPc = "censusBody"
  /\ Ends(outcome, CensusBodyOutcomes)
  /\ demoCensus' = outcome
  /\ IF outcome = "ok"
       THEN \E dataObj \in StatisticsRows :
              /\ demoPc' = "done"
              /\ demoRow' = dataObj
              /\ demoResult' = DemographicsData(dataObj)
       ELSE /\ DemoThrows(Thrown("census", outcome))
            /\ UNCHANGED demoRow
  /\ UNCHANGED <<abortSignal, demoRequests, demoGeo, abortedAt>>
  /\ UNCHANGED <<searchVars, bizVars, enrichVars, geoVars, circleVars, popupVars, loaderVars, lensVars>>

\* --------------------------------------------------------- geographicUtils
\* Lengths are whole centimetres.  The points lie on one meridian and lat is
\* the arc from the equator, R * phi: with equal longitudes the haversine
\* formula of calculateDistance gives R * |phi2 - phi1|.
Latitudes == {0, 50000, 250000, 552336}
NoRadius == 0 - 1
GivenRadii == {100000, 150000}
GeographicPoint == [lat : Latitudes, lng : {0}]

\* The businesses of one search: every place id is different; the radius is
\* the one of the search or is not given.
BusinessWithLocation(k, shape) ==
  [place_id |-> <<"place", k>>, location |-> shape.location, radius |-> shape.radius]
BusinessShapes == [location : GeographicPoint, radius : GivenRadii \cup {NoRadius}]
calculateDistance(point1, point2) == Abs(point2.lat - point1.lat)

\* Variant: circles that touch count as overlapping.
doCirclesOverlapOrTouch(center1, radius1, center2, radius2) ==
  calculateDistance(center1, center2) <= radius1 + radius2

doCirclesOverlap(center1, radius1, center2, radius2) ==
  calculateDistance(center1, center2) < radius1 + radius2

\* An area: nothing, pi * radius^2, or the lens of two circles at a distance
\* (lines 91-101).
NoArea == [shape |-> "none", radius |-> 0, lens |-> <<>>]
Disc(radius) == [shape |-> "disc", radius |-> radius, lens |-> <<>>]
Lens(distance, radius1, radius2) ==
  [shape |-> "lens", radius |-> 0, lens |-> <<distance, radius1, radius2>>]

\* Variant: circles that touch go on to the formulas.
DisjointStrictly(distance, radius1, radius2) == distance > radius1 + radius2

\* distance >= radius1 + radius2
Disjoint(distance, radius1, radius2) == distance >= radius1 + radius2

\* Variant: the radius of the larger circle.
LargerRadius(radius1, radius2) == Max(radius1, radius2)

\* Math.min(radius1, radius2) of line 87
SmallerRadius(radius1, radius2) == Min(radius1, radius2)

calculateCircleIntersectionArea(center1, radius1, center2, radius2) ==
  LET distance == calculateDistance(center1, center2)
  IN  IF Disjoint(distance, radius1, radius2) THEN NoArea
      ELSE IF distance <= Abs(radius1 - radius2)
        THEN Disc(SmallerRadius(radius1, radius2))
        ELSE Lens(distance, radius1, radius2)

\* Variant: the area of the larger circle.
LargerCircleArea(radius1, radius2) == Disc(Max(radius1, radius2))

\* Math.PI * Math.min(radius1, radius2) ** 2 of line 131
SmallerCircleArea(radius1, radius2) == Disc(Min(radius1, radius2))

\* A percentage 100 * (num / den)^2 with num / den in lowest terms, the
\* percentage of a lens, or the result of a division by zero.
SquarePercent(num, den) ==
  LET g == GCD(num, den)
  IN  [kind |-> "percent", num |-> Abs(num) \div g, den |-> Abs(den) \div g]
LensPercent == [kind |-> "lens", num |-> 0, den |-> 0]
NotANumber == [kind |-> "NaN", num |-> 0, den |-> 0]
Hundred == [kind |-> "percent", num |-> 1, den |-> 1]

\* (overlapArea / smallerCircleArea) * 100
OverlapPercentage(overlapArea, smallerCircleArea) ==
  IF smallerCircleArea.radius = 0 THEN NotANumber
  ELSE IF overlapArea.shape = "lens" THEN LensPercent
  ELSE SquarePercent(overlapArea.radius, smallerCircleArea.radius)

\* Variant: the radius is taken as it is given.
RadiusAsGiven(radius) == radius

\* business.radius || 4023.36: no radius and 0 are falsy.
EffectiveRadius(radius) == IF radius = NoRadius \/ radius = 0 THEN DefaultRadius ELSE radius

\* Variant: business2 first.
OverlapResultSwapped(business1, business2, distance, overlapArea, overlapPercentage) ==
  [business1 |-> business2.place_id, business2 |-> business1.place_id,
   distance |-> distance, overlapArea |-> overlapArea,
   overlapPercentage |-> overlapPercentage]

\* The record pushed at lines 134-140.
OverlapResult(business1, business2, distance, overlapArea, overlapPercentage) ==
  [business1 |-> business1.place_id, business2 |-> business2.place_id,
   distance |-> distance, overlapArea |-> overlapArea,
   overlapPercentage |-> overlapPercentage]

\* Variant: the inner loop starts at the first element.
InnerStartAtFirst(i) == 1

\* let j = i + 1
InnerStart(i) == i + 1

GeoIdle ==
  /\ geoBusinesses = <<>>
  /\ geoPc = "idle"
  /\ geoI = 0
  /\ geoJ = 0
  /\ geoOverlaps = <<>>
  /\ radiiUsed = <<>>

\* Before the call: any list of businesses.
GeoInput ==
  /\ \E n \in 0..MaxEntities : \E shapes \in [1..n -> BusinessShapes] :
        geoBusinesses = [k \in 1..n |-> BusinessWithLocation(k, shapes[k])]
  /\ geoPc = "idle"
  /\ geoI = 0
  /\ geoJ = 0
  /\ geoOverlaps = <<>>
  /\ radiiUsed = <<>>

\* The call (lines 109-113): an empty result list, i at the first element.
findOverlappingBusinesses ==
  /\ geoPc = "idle"
  /\ geoPc' = "loop"
  /\ geoOverlaps' = <<>>
  /\ geoI' = 1
  /\ geoJ' = InnerStart(1)
  /\ UNCHANGED <<geoBusinesses, radiiUsed>>
  /\ UNCHANGED <<searchVars, bizVars, enrichVars, demoVars, circleVars, popupVars, loaderVars, lensVars>>

\* One pass of the inner loop (lines 113-142).
InnerLoopPass ==
  /\ geoPc = "loop"
  /\ geoI <= Len(geoBusinesses)
  /\ geoJ <= Len(geoBusinesses)
  /\ LET business1 == geoBusinesses[geoI]
         business2 == geoBusinesses[geoJ]
         radius1 == EffectiveRadius(business1.radius)
         radius2 == EffectiveRadius(business2.radius)
         distance == calculateDistance(business1.location, business2.location)
         overlapArea == calculateCircleIntersectionArea(business1.location, radius1,
                                                        business2.location, radius2)
         overlapPercentage == OverlapPercentage(overlapArea,
                                                SmallerCircleArea(radius1, radius2))
     IN  /\ geoOverlaps' =
              IF doCirclesOverlap(business1.location, radius1, business2.location, radius2)
                THEN Append(geoOverlaps, OverlapResult(business1, business2, distance,
                                                       overlapArea, overlapPercentage))
                ELSE geoOverlaps
         /\ radiiUsed' = Append(radiiUsed, [i |-> geoI, j |-> geoJ,
                                            radius1 |-> radius1, radius2 |-> radius2])
  /\ geoJ' = geoJ + 1
  /\ UNCHANGED <<geoBusinesses, geoPc, geoI>>
  /\ UNCHANGED <<searchVars, bizVars, enrichVars, demoVars, circleVars, popupVars, loaderVars, lensVars>>

\* The inner loop has ended: the next pass of the outer loop (line 112).
OuterLoopPass ==
  /\ geoPc = "loop"
  /\ geoI <= Len(geoBusinesses)
  /\ geoJ > Len(geoBusinesses)
  /\ geoI' = geoI + 1
  /\ geoJ' = InnerStart(geoI + 1)
  /\ UNCHANGED <<geoBusinesses, geoPc, geoOverlaps, radiiUsed>>
  /\ UNCHANGED <<searchVars, bizVars, enrichVars, demoVars, circleVars, popupVars, loaderVars, lensVars>>

\* return overlaps (line 145)
GeoReturn ==
  /\ geoPc = "loop"
  /\ geoI > Len(geoBusinesses)
  /\ geoPc' = "done"
  /\ UNCHANGED <<geoBusinesses, geoI, geoJ, geoOverlaps, radiiUsed>>
  /\ UNCHANGED <<searchVars, bizVars, enrichVars, demoVars, circleVars, popupVars, loaderVars, lensVars>>

\* ----------------------------- doCirclesOverlap, calculateCircleIntersectionArea
\* The two functions called on their own, each once, with the radii the
\* callers pass.
CircleRadii == GivenRadii \cup {DefaultRadius}
NoCircles == [center1 |-> [lat |-> 0, lng |-> 0], radius1 |-> 0,
              center2 |-> [lat |-> 0, lng |-> 0], radius2 |-> 0]

CirclesIdle ==
  /\ overlapCall = [args |-> NoCircles, called |-> FALSE, result |-> FALSE]
  /\ areaCall = [args |-> NoCircles, called |-> FALSE, result |-> NoArea]

DoCirclesOverlapCalled(center1, radius1, center2, radius2) ==
  /\ ~overlapCall.called
  /\ overlapCall' = [args |-> [center1 |-> center1, radius1 |-> radius1,
                               center2 |-> center2, radius2 |-> radius2],
                     called |-> TRUE,
                     result |-> doCirclesOverlap(center1, radius1, center2, radius2)]
  /\ UNCHANGED areaCall
  /\ UNCHANGED <<searchVars, bizVars, enrichVars, demoVars, geoVars, popupVars, loaderVars, lensVars>>

CalculateCircleIntersectionAreaCalled(center1, radius1, center2, radius2) ==
  /\ ~areaCall.called
  /\ areaCall' = [args |-> [center1 |-> center1, radius1 |-> radius1,
                            center2 |-> center2, radius2 |-> radius2],
                  called |-> TRUE,
                  result |-> calculateCircleIntersectionArea(center1, radius1,
                                                             center2, radius2)]
  /\ UNCHANGED overlapCall
  /\ UNCHANGED <<searchVars, bizVars, enrichVars, demoVars, geoVars, popupVars, loaderVars, lensVars>>

\* ------------------------------------------------- showDemographicPopup
\* A popup request is one call of showDemographicPopup that passed the
\* duplicate check. It awaits, in this order, the geography fetch, its body,
\* the census fetch and its body, all four under the signal of its own
\* AbortController. abort() rejects the pending fetch or body read of the
\* request it cancels before it returns, so the catch and the finally of a
\* cancelled request run as microtasks of the task that cancelled it: after
\* the synchronous part of the new call and before the next click.
PopupIds == 1 .. MaxPopups
PopupKeys == {"40.712800_-74.006000", "34.052200_-118.243700"}
NoKey == ""
NoPopup == [requestKey |-> NoKey, pc |-> "none", aborted |-> FALSE, fetches |-> 0, outcome |-> "none"]
NoInfoWindow == [owner |-> 0, content |-> "none"]

PopupIdle ==
  /\ lastDemographicRequest = NoKey
  /\ demographicAbortController = 0
  /\ demographicInfoWindow = NoInfoWindow
  /\ popup = [r \in PopupIds |-> NoPopup]
  /\ popupCount = 0
  /\ clicks = 0
  /\ clicked = NoKey

\* Variant of IsDuplicate that never recognises a duplicate
IsDuplicateNever(last, requestKey) == FALSE

\* if (lastDemographicRequestRef.current === requestKey) return
IsDuplicate(last, requestKey) == last = requestKey

\* Variant of KeyAfterFinally that clears the key whoever owns it
KeyClearedAlways(last, requestKey) == NoKey

\* finally: the key is cleared only if it is still this request's key
KeyAfterFinally(last, requestKey) == IF last = requestKey THEN NoKey ELSE last

\* the request has begun and neither returned nor thrown yet
Outstanding(r) == r # 0 /\ popup[r].pc \notin {"none", "done"}

\* a cancelled request whose rejection has not been handled yet
MicrotaskPending == \E r \in PopupIds : Outstanding(r) /\ popup[r].aborted

\* the await that follows a successful await
NextAwait(pc) ==
  CASE pc = "geoFetch" -> "geoBody"
    [] pc = "geoBody" -> "censusFetch"
    [] pc = "censusFetch" -> "censusBody"

\* The map's click listener calls showDemographicPopup: the part up to the
\* first await.
showDemographicPopup(requestKey) ==
  /\ ~MicrotaskPending
  /\ clicks < MaxClicks
  /\ clicks' = clicks + 1
  /\ clicked' = requestKey
  /\ IF IsDuplicate(lastDemographicRequest, requestKey)
       THEN UNCHANGED <<lastDemographicRequest, demographicAbortController,
                        demographicInfoWindow, popup, popupCount>>
       ELSE /\ popupCount < MaxPopups
            /\ LET r == popupCount + 1
                   previous == demographicAbortController
               IN  /\ popup' = [x \in PopupIds |->
                         IF x = r
                           THEN [requestKey |-> requestKey, pc |-> "geoFetch", aborted |-> FALSE,
                                 fetches |-> 1, outcome |-> "pending"]
                           ELSE IF x = previous
                                  THEN [popup[x] EXCEPT !.aborted = TRUE]
                                  ELSE popup[x]]
                   /\ lastDemographicRequest' = requestKey
                   /\ popupCount' = r
                   /\ demographicAbortController' = r
                   /\ demographicInfoWindow' = [owner |-> r, content |-> "loading"]
  /\ UNCHANGED <<searchVars, bizVars, enrichVars, demoVars, geoVars, circleVars, loaderVars, lensVars>>

\* The await of a cancelled request rejects with AbortError: the catch
\* returns without touching the popup, then the finally runs.
PopupAborted(r) ==
  /\ Outstanding(r)
  /\ popup[r].aborted
  /\ popup' = [popup EXCEPT ![r].pc = "done", ![r].outcome = "cancelled"]
  /\ lastDemographicRequest' = KeyAfterFinally(lastDemographicRequest, popup[r].requestKey)
  /\ UNCHANGED <<demographicAbortController, demographicInfoWindow, popupCount, clicks, clicked>>
  /\ UNCHANGED <<searchVars, bizVars, enrichVars, demoVars, geoVars, circleVars, loaderVars, lensVars>>

\* An await of request r settles: with a value ("ok") or by throwing
\* ("fails": a network error, a bad status, an empty or unparsable body).
\* A response is delivered by a task of its own, after pending microtasks.
PopupSettles(r, outcome) ==
  /\ ~MicrotaskPending
  /\ Outstanding(r)
  /\ ~popup[r].aborted
  /\ IF outcome = "ok" /\ popup[r].pc # "censusBody"
       THEN /\ popup' = [popup EXCEPT ![r].pc = NextAwait(@),
                                      ![r].fetches = IF popup[r].pc = "geoBody" THEN @ + 1 ELSE @]
            /\ UNCHANGED <<lastDemographicRequest, demographicInfoWindow>>
       ELSE /\ popup' = [popup EXCEPT ![r].pc = "done",
                                      ![r].outcome = IF outcome = "ok" THEN "data" ELSE "error"]
            /\ demographicInfoWindow' =
                 IF popup[r].aborted
                   THEN demographicInfoWindow
                   ELSE [demographicInfoWindow EXCEPT
                           !.content = IF outcome = "ok" THEN "data" ELSE "error"]
            /\ lastDemographicRequest' =
                 KeyAfterFinally(lastDemographicRequest, popup[r].requestKey)
  /\ UNCHANGED <<demographicAbortController, popupCount, clicks, clicked>>
  /\ UNCHANGED <<searchVars, bizVars, enrichVars, demoVars, geoVars, circleVars, loaderVars, lensVars>>

\* ------------------------------------------------- loadGoogleMapsScript
LoadIds == 1 .. MaxLoads
NoLoad == 0
Resolved == 0 - 1
NoScript == [inDom |-> FALSE, state |-> "none"]
ApiStates == <<"none", "importLibrary", "Map">>
ApiRank(api) == CHOOSE n \in 1 .. 3 : ApiStates[n] = api

LoaderIdle ==
  /\ isLoading = FALSE
  /\ isLoaded = FALSE
  /\ loadPromise = NoLoad
  /\ promise = [k \in LoadIds |-> "none"]
  /\ script = [k \in LoadIds |-> NoScript]
  /\ attempts = [k \in LoadIds |-> 0]
  /\ google = "none"
  /\ loads = 0
  /\ loaderCalls = 0
  /\ loaderCall = [returned |-> NoLoad, appended |-> FALSE]

\* window.google && window.google.maps && typeof importLibrary === 'function'
ApiLoaded(api) == api # "none"

\* ... && window.google.maps.Map && typeof importLibrary === 'function'
ApiReady(api) == api = "Map"

\* document.querySelector('script[src*="maps.googleapis.com"]')
ExistingScript == \E k \in LoadIds : script[k].inDom

loadGoogleMapsScript ==
  /\ loaderCalls < MaxLoaderCalls
  /\ loaderCalls' = loaderCalls + 1
  /\ IF isLoaded /\ ApiLoaded(google)
       THEN /\ loaderCall' = [returned |-> Resolved, appended |-> FALSE]
            /\ UNCHANGED <<isLoading, isLoaded, loadPromise, promise, script, attempts, loads>>
       ELSE IF isLoading /\ loadPromise # NoLoad
         THEN /\ loaderCall' = [returned |-> loadPromise, appended |-> FALSE]
              /\ UNCHANGED <<isLoading, isLoaded, loadPromise, promise, script, attempts, loads>>
         ELSE IF ExistingScript /\ ApiLoaded(google)
           THEN /\ isLoaded' = TRUE
                /\ loaderCall' = [returned |-> Resolved, appended |-> FALSE]
                /\ UNCHANGED <<isLoading, loadPromise, promise, script, attempts, loads>>
           ELSE /\ loads < MaxLoads
                /\ LET k == loads + 1
                   IN  /\ isLoading' = TRUE
                       /\ loads' = k
                       /\ loadPromise' = k
                       /\ promise' = [promise EXCEPT ![k] = "pending"]
                       /\ script' = [x \in LoadIds |->
                             IF x = k THEN [inDom |-> TRUE, state |-> "loading"]
                                      ELSE [script[x] EXCEPT !.inDom = FALSE]]
                       /\ loaderCall' = [returned |-> k, appended |-> TRUE]
                /\ UNCHANGED <<isLoaded, attempts>>
  /\ UNCHANGED google
  /\ UNCHANGED <<searchVars, bizVars, enrichVars, demoVars, geoVars, circleVars, popupVars, lensVars>>

\* checkGoogleMaps of load k, seeing window.google in state api
checkGoogleMaps(k, api) ==
  IF ApiReady(api)
    THEN /\ isLoaded' = TRUE
         /\ isLoading' = FALSE
         /\ promise' = [promise EXCEPT ![k] = "resolved"]
         /\ script' = [script EXCEPT ![k].state = "ended"]
         /\ UNCHANGED <<loadPromise, attempts>>
    ELSE IF attempts[k] < maxAttempts
      THEN /\ attempts' = [attempts EXCEPT ![k] = @ + 1]
           /\ script' = [script EXCEPT ![k].state = "polling"]
           /\ UNCHANGED <<isLoaded, isLoading, promise, loadPromise>>
      ELSE /\ isLoading' = FALSE
           /\ loadPromise' = NoLoad
           /\ promise' = [promise EXCEPT ![k] = "rejected"]
           /\ script' = [script EXCEPT ![k].state = "ended"]
           /\ UNCHANGED <<isLoaded, attempts>>

\* script.onload: the script has run and left window.google in state api
\* (nothing more than before, the bootstrap with importLibrary, or the whole
\* library); the first checkGoogleMaps follows in the same task.
ScriptOnload(k, api) ==
  /\ script[k].state = "loading"
  /\ ApiRank(api) >= ApiRank(google)
  /\ google' = api
  /\ checkGoogleMaps(k, api)
  /\ UNCHANGED <<loads, loaderCalls, loaderCall>>
  /\ UNCHANGED <<searchVars, bizVars, enrichVars, demoVars, geoVars, circleVars, popupVars, lensVars>>

\* setTimeout(checkGoogleMaps, 100) fires
PollFires(k) ==
  /\ script[k].state = "polling"
  /\ checkGoogleMaps(k, google)
  /\ UNCHANGED <<google, loads, loaderCalls, loaderCall>>
  /\ UNCHANGED <<searchVars, bizVars, enrichVars, demoVars, geoVars, circleVars, popupVars, lensVars>>

\* script.onerror
ScriptOnerror(k) ==
  /\ script[k].state = "loading"
  /\ isLoading' = FALSE
  /\ loadPromise' = NoLoad
  /\ promise' = [promise EXCEPT ![k] = "rejected"]
  /\ script' = [script EXCEPT ![k].state = "ended"]
  /\ UNCHANGED <<isLoaded, attempts, google, loads, loaderCalls, loaderCall>>
  /\ UNCHANGED <<searchVars, bizVars, enrichVars, demoVars, geoVars, circleVars, popupVars, lensVars>>

\* The bootstrap finishes loading the library: google.maps.Map appears.
LibraryInitialises ==
  /\ google = "importLibrary"
  /\ google' = "Map"
  /\ UNCHANGED <<isLoading, isLoaded, loadPromise, promise, script, attempts,
                 loads, loaderCalls, loaderCall>>
  /\ UNCHANGED <<searchVars, bizVars, enrichVars, demoVars, geoVars, circleVars, popupVars, lensVars>>

\* --------------------- calculateCircleIntersectionArea in floating point
\* A number is m * 2^e with |m| < 2^Precision; every operation returns its
\* exact result rounded to the nearest such number, ties to the even
\* significand, as the arithmetic of a JavaScript number does with 53 bits.
Float(m, e) == [m |-> m, e |-> e]

RECURSIVE BitLength(_)
BitLength(n) == IF n = 0 THEN 0 ELSE 1 + BitLength(n \div 2)

RoundToNearest(m, e) ==
  LET a == Abs(m)
      k == BitLength(a) - Precision
  IN  IF k <= 0
        THEN Float(m, e)
        ELSE LET q == a \div (2 ^ k)
                 r == a % (2 ^ k)
                 half == 2 ^ (k - 1)
                 up == IF r > half \/ (r = half /\ q % 2 = 1) THEN q + 1 ELSE q
                 sign == IF m < 0 THEN 0 - 1 ELSE 1
             IN  IF up = 2 ^ Precision
                   THEN Float(sign * (2 ^ (Precision - 1)), e + k + 1)
                   ELSE Float(sign * up, e + k)

\* the two significands over the smaller of the two exponents
Aligned(a, b) ==
  LET low == Min(a.e, b.e)
  IN  <<a.m * (2 ^ (a.e - low)), b.m * (2 ^ (b.e - low)), low>>

FAdd(a, b) == LET al == Aligned(a, b) IN RoundToNearest(al[1] + al[2], al[3])
FNeg(a) == Float(0 - a.m, a.e)
FSub(a, b) == FAdd(a, FNeg(b))
FMul(a, b) == RoundToNearest(a.m * b.m, a.e + b.e)
FAbs(a) == Float(Abs(a.m), a.e)
FLess(a, b) == LET al == Aligned(a, b) IN al[1] < al[2]

\* the quotient to 2 * Precision + 2 bits, with a last bit that records a
\* remainder, rounds as the exact quotient does
FDiv(a, b) ==
  LET shift == 2 * Precision + 2
      sign == IF (a.m < 0) = (b.m < 0) THEN 1 ELSE 0 - 1
      n == Abs(a.m) * (2 ^ shift)
      q == n \div Abs(b.m)
      sticky == IF n % Abs(b.m) = 0 THEN 0 ELSE 1
  IN  RoundToNearest(sign * (2 * q + sticky), a.e - b.e - shift - 1)

FZero == Float(0, 0)
FOne == Float(1, 0)
FTwo == Float(2, 0)

\* normalised positive numbers of two binades
FloatInputs ==
  {Float(m, e) : m \in (2 ^ (Precision - 1)) .. (2 ^ Precision - 1), e \in 0 .. 1}

\* the branch calculateCircleIntersectionArea takes
LensBranch(distance, radius1, radius2) ==
  IF ~FLess(distance, FAdd(radius1, radius2)) THEN "disjoint"
  ELSE IF ~FLess(FAbs(FSub(radius1, radius2)), distance) THEN "contained"
  ELSE "lens"

\* the arguments of the two Math.acos and of Math.sqrt of the lens formula
LensOperands(distance, radius1, radius2) ==
  LET r1Squared == FMul(radius1, radius1)
      r2Squared == FMul(radius2, radius2)
      dSquared == FMul(distance, distance)
  IN  [acos1 |-> FDiv(FSub(FAdd(dSquared, r1Squared), r2Squared),
                      FMul(FMul(FTwo, distance), radius1)),
       acos2 |-> FDiv(FSub(FAdd(dSquared, r2Squared), r1Squared),
                      FMul(FMul(FTwo, distance), radius2)),
       sqrt  |-> FMul(FMul(FMul(FAdd(FAdd(FNeg(distance), radius1), radius2),
                                FSub(FAdd(distance, radius1), radius2)),
                           FAdd(FSub(distance, radius1), radius2)),
                      FAdd(FAdd(distance, radius1), radius2))]

\* Math.acos returns NaN outside [-1, 1], Math.sqrt below 0
AcosIsNaN(x) == FLess(FOne, x) \/ FLess(x, FNeg(FOne))
SqrtIsNaN(x) == FLess(x, FZero)

NoOperands == [acos1 |-> FZero, acos2 |-> FZero, sqrt |-> FZero]

LensIdle ==
  lensCall = [called |-> FALSE, distance |-> FZero, radius1 |-> FZero, radius2 |-> FZero,
              branch |-> "none", operands |-> NoOperands, isNaN |-> FALSE]

LensCalled(distance, radius1, radius2) ==
  /\ ~lensCall.called
  /\ LET branch == LensBranch(distance, radius1, radius2)
         operands == IF branch = "lens" THEN LensOperands(distance, radius1, radius2)
                                        ELSE NoOperands
     IN  lensCall' = [called |-> TRUE, distance |-> distance, radius1 |-> radius1,
                      radius2 |-> radius2, branch |-> branch, operands |-> operands,
                      isNaN |-> /\ branch = "lens"
                                /\ \/ AcosIsNaN(operands.acos1)
                                   \/ AcosIsNaN(operands.acos2)
                                   \/ SqrtIsNaN(operands.sqrt)]
  /\ UNCHANGED <<searchVars, bizVars, enrichVars, demoVars, geoVars, circleVars, popupVars, loaderVars>>

\* ------------------------------------------------------------ specifications
Init == InitSearch /\ BizIdle /\ EnrichIdle /\ DemoIdle /\ GeoIdle /\ CirclesIdle
  /\ PopupIdle /\ LoaderIdle /\ LensIdle

Next ==
  \/ initializeMap
  \/ handleBusinessSearch
  \/ ParameterChange
  \/ handleCitySelect
  \/ searchBusinesses
  \/ \E s \in SearchIds, found \in Found : PlacesResolve(s, found)
  \/ \E s \in SearchIds, kind \in {"quota", "invalid", "search"} : PlacesReject(s, kind)
  \/ \E s \in SearchIds : EnrichmentComplete(s)
  \/ \E s \in SearchIds : QuotaReset(s)
  \/ Tick

Spec == Init /\ [][Next]_vars

\* The event loop runs every due timer and time passes.
Fairness ==
  /\ WF_vars(Tick)
  /\ WF_vars(searchBusinesses)
  /\ \A s \in SearchIds : WF_vars(QuotaReset(s))

FairSpec == Spec /\ Fairness

InitBiz == InitSearch /\ BizCalled /\ EnrichIdle /\ DemoIdle /\ GeoIdle /\ CirclesIdle
  /\ PopupIdle /\ LoaderIdle /\ LensIdle

NextBiz ==
  \/ BizAbort
  \/ \E i \in Businesses : BizDelayElapsed(i)
  \/ \E i \in Businesses, outcome \in {"data", "error", "cancelled", "rejects"} :
        BizFetchSettles(i, outcome)
  \/ \E callbackThrows \in BOOLEAN : BizSettle(callbackThrows)

SpecBiz == InitBiz /\ [][NextBiz]_vars

InitEnrich == InitSearch /\ BizIdle /\ EnrichInput /\ DemoIdle /\ GeoIdle /\ CirclesIdle
  /\ PopupIdle /\ LoaderIdle /\ LensIdle

NextEnrich ==
  \/ enrichRecommendationsWithDemographics
  \/ \E i \in Indices, outcome \in {"data", "error", "rejects"} : LookupSettles(i, outcome)
  \/ PromiseAllSettles

SpecEnrich == InitEnrich /\ [][NextEnrich]_vars

InitDemo == InitSearch /\ BizIdle /\ EnrichIdle /\ DemoInput /\ GeoIdle /\ CirclesIdle
  /\ PopupIdle /\ LoaderIdle /\ LensIdle

NextDemo ==
  \/ DemoAbort
  \/ fetchDemographics
  \/ \E outcome \in FetchOutcomes : GeoFetchSettles(outcome)
  \/ \E outcome \in GeoBodyOutcomes : GeoBodySettles(outcome)
  \/ \E outcome \in FetchOutcomes : CensusFetchSettles(outcome)
  \/ \E outcome \in CensusBodyOutcomes : CensusBodySettles(outcome)

SpecDemo == InitDemo /\ [][NextDemo]_vars

InitGeo == InitSearch /\ BizIdle /\ EnrichIdle /\ DemoIdle /\ GeoInput /\ CirclesIdle
  /\ PopupIdle /\ LoaderIdle /\ LensIdle

NextGeo ==
  \/ findOverlappingBusinesses
  \/ InnerLoopPass
  \/ OuterLoopPass
  \/ GeoReturn

SpecGeo == InitGeo /\ [][NextGeo]_vars

InitCircles == Init

NextCircles ==
  \/ \E center1 \in GeographicPoint, radius1 \in CircleRadii,
        center2 \in GeographicPoint, radius2 \in CircleRadii :
        DoCirclesOverlapCalled(center1, radius1, center2, radius2)
  \/ \E center1 \in GeographicPoint, radius1 \in CircleRadii,
        center2 \in GeographicPoint, radius2 \in CircleRadii :
        CalculateCircleIntersectionAreaCalled(center1, radius1, center2, radius2)

SpecCircles == InitCircles /\ [][NextCircles]_vars

InitPopup == Init

NextPopup ==
  \/ \E requestKey \in PopupKeys : showDemographicPopup(requestKey)
  \/ \E r \in PopupIds : PopupAborted(r)
  \/ \E r \in PopupIds, outcome \in {"ok", "fails"} : PopupSettles(r, outcome)

SpecPopup == InitPopup /\ [][NextPopup]_vars

InitLoader == Init

NextLoader ==
  \/ loadGoogleMapsScript
  \/ \E k \in LoadIds, api \in {"none", "importLibrary", "Map"} : ScriptOnload(k, api)
  \/ \E k \in LoadIds : PollFires(k)
  \/ \E k \in LoadIds : ScriptOnerror(k)
  \/ LibraryInitialises

SpecLoader == InitLoader /\ [][NextLoader]_vars

InitLens == Init

NextLens ==
  \E distance \in FloatInputs, radius1 \in FloatInputs, radius2 \in FloatInputs :
    LensCalled(distance, radius1, radius2)

SpecLens == InitLens /\ [][NextLens]_vars

\* ==================================================================== claims

\* C1: a superseded search N (its controller aborted by the dispatch of N+1)
\* has no effect on the consumer: it calls neither onBusinessesFound nor
\* onOverlapsDetected, clears no markers and sets no error state, whether its
\* places lookup resolves or rejects.
C1_SupersededSearchIsSilent == staleEffects = {}

\* C2: once the abort signal of a search is aborted, fetchBusinessDemographics
\* never invokes onBusinessesFound, and the call ends silently, wherever in its
\* per-business lookups the abort happens.
C2_CancelledEnrichmentIsSilent ==
  /\ bizCallsAborted = 0
  /\ (bizAborted /\ bizOutcome # "running") => bizOutcome \in {"silent", "delivered", "caught"}
  /\ (bizOutcome = "silent") => bizAborted

C2_Witness ==
  /\ bizAborted
  /\ bizOutcome = "silent"
  /\ \E i \in Businesses : bizResult[i] = "cancelled"
  /\ \E i \in Businesses : bizResult[i] = "data"

\* C3: two consecutive dispatched searches are at least MIN_SEARCH_INTERVAL
\* apart: a search is dispatched only when a full interval has passed since the
\* previous dispatch.
C3_RateLimit == [][(nextId' # nextId /\ nextId >= 1) => sinceDispatch >= MinTicks]_vars

C3_Witness ==
  /\ nextId >= 2
  /\ lastDispatch = "requestDeferred"
  /\ sinceDispatch = 0

\* C4: a request that arrives less than MIN_SEARCH_INTERVAL after the previous
\* dispatch is deferred, not dropped: its timer stays pending until the search
\* is dispatched, a full interval or more after the previous dispatch, or a
\* newer request replaces it, or the cooldown begins; and it does not stay
\* pending for ever.
C4_Dispatched ==
  /\ nextId' = nextId + 1
  /\ lastDispatch' = "requestDeferred"
  /\ sinceDispatch >= MinTicks

C4_Replaced == requests' # requests \/ businessType' # businessType

C4_CooldownBegins == ~quotaExhausted /\ quotaExhausted'

C4_DeferredIsDispatched ==
  /\ (timerKind = "requestDeferred") ~> (timerKind # "requestDeferred")
  /\ [][(timerKind = "requestDeferred" /\ timerKind' # "requestDeferred")
          => (C4_Dispatched \/ C4_Replaced \/ C4_CooldownBegins)]_vars

C4_Witness ==
  /\ lastDispatch = "requestDeferred"
  /\ sinceDispatch = 0
  /\ timerKind = "none"

\* C5: no search is dispatched during the QUOTA_RESET_DELAY that follows a
\* quota error of any search.
C5_NoDispatchInCooldown == [][nextId' # nextId => sinceQuotaError >= QuotaTicks]_vars

C7_CooldownEnds ==
  /\ quotaExhausted ~> (~quotaExhausted /\ error = "")
  /\ [][(quotaExhausted /\ ~quotaExhausted')
          => \E s \in SearchIds : search[s].quotaTimer = 0 /\ search'[s].quotaTimer = NoTimer]_vars

C7_Witness ==
  /\ quotaErrors >= 1
  /\ ~quotaExhausted
  /\ error = ""
  /\ lastDispatch = "auto"
  /\ \E s \in SearchIds : search[s].lookup = "pending"

\* C8: the call never rejects, and it resolves with a sequence as long as the
\* input in which every element has realDemographics set to a
\* DemographicsData or a DemographicsError, whatever the lookups did.
C8_EveryPointEnriched ==
  /\ enrichStatus # "rejected"
  /\ (enrichStatus = "resolved") =>
        (/\ Len(enrichedRecommendations) = Len(recommendations)
         /\ \A i \in 1..Len(enrichedRecommendations) :
              enrichedRecommendations[i].realDemographics
                \in {RealDemographics(o) : o \in {"data", "error", "rejects"}})

C8_Witness ==
  /\ enrichStatus = "resolved"
  /\ Len(recommendations) >= 2
  /\ \A i \in 1..Len(recommendations) : lookupOutcome[i] \in {"error", "rejects"}

\* C9: the output has at every index the id of the input element at that
\* index, in whatever order the lookups completed.
C9_InputOrder ==
  (enrichStatus = "resolved") =>
    (/\ Len(enrichedRecommendations) = Len(recommendations)
     /\ \A i \in 1..Len(recommendations) :
          enrichedRecommendations[i].id = recommendations[i].id)

C9_Witness ==
  /\ enrichStatus = "resolved"
  /\ Len(recommendations) >= 2
  /\ recommendations[1].id # recommendations[2].id
  /\ completionOrder[1] > completionOrder[2]

\* C10: exactly one lookup is issued per input point; the value attached to a
\* point is decided by its own lookup alone; the settling of one lookup leaves
\* the promise of every other point as it was; the call never rejects.
C10_OwnLookupDecides ==
  /\ (enrichStatus # "idle") =>
        (\A i \in 1..Len(recommendations) : lookups[i] = 1)
  /\ enrichStatus # "rejected"
  /\ \A i \in 1..Len(recommendations) :
        (lookupOutcome[i] # "pending") =>
          (/\ mapped[i].state = "fulfilled"
           /\ mapped[i].value.realDemographics = RealDemographics(lookupOutcome[i]))
  /\ (enrichStatus = "resolved") =>
        (\A i \in 1..Len(recommendations) :
           enrichedRecommendations[i].realDemographics = RealDemographics(lookupOutcome[i]))

C10_SiblingsUntouched ==
  \A i, j \in Indices :
    (i # j /\ lookupOutcome[i] = "pending" /\ lookupOutcome'[i] # "pending")
      => (mapped'[j] = mapped[j] /\ lookupOutcome'[j] = lookupOutcome[j])

C10_FailureIsolation == []C10_OwnLookupDecides /\ [][C10_SiblingsUntouched]_vars

C10_Witness ==
  /\ enrichStatus = "resolved"
  /\ \E i, j \in 1..Len(recommendations) :
        /\ lookupOutcome[i] = "rejects"
        /\ lookupOutcome[j] = "data"
        /\ enrichedRecommendations[i].realDemographics = RealDemographics("rejects")
        /\ enrichedRecommendations[j].realDemographics = RealDemographics("data")

\* C11: fetchDemographics never throws or rejects.  However a lookup fails
\* (transport or HTTP failure, empty body, malformed JSON, no geography
\* match, missing area code, fewer than two statistics rows), at either step,
\* the call resolves to a DemographicsError with a message; it resolves to a
\* DemographicsData only when both lookups succeeded.
C11_Failed(lookup) == lookup \notin {"none", "ok"}

C11_NeverRejects ==
  /\ demoResult.kind \in {"pending", "DemographicsData", "DemographicsError"}
  /\ (demoResult.kind = "pending") <=> (demoPc # "done")
  /\ (C11_Failed(demoGeo) \/ C11_Failed(demoCensus)) =>
        (demoResult.kind = "DemographicsError" /\ demoResult.error # "")
  /\ (demoResult.kind = "DemographicsError") => (demoResult.error # "")
  /\ (demoResult.kind = "DemographicsData") => (demoGeo = "ok" /\ demoCensus = "ok")

C11_Witness ==
  /\ demoPc = "done"
  /\ demoGeo = "ok"
  /\ demoCensus = "fewRows"
  /\ demoResult.kind = "DemographicsError"
  /\ demoResult.details = "No demographic data available for this location"

\* C12: when the signal is aborted while one of the two network lookups is
\* outstanding, fetchDemographics resolves to the cancellation failure
\* ('Request cancelled', no details), not to the generic failure and not to a
\* DemographicsData, and no network request is sent after the abort.
C12_Outstanding == {"geoFetch", "geoBody", "censusFetch", "censusBody"}

C12_CancelledWhileOutstanding ==
  (demoPc = "done" /\ abortedAt \in C12_Outstanding) =>
     (/\ demoResult.kind = "DemographicsError"
      /\ demoResult.error = "Request cancelled"
      /\ demoResult.details = NoDetails)

C12_CancellationIsDistinguished ==
  /\ []C12_CancelledWhileOutstanding
  /\ [][(abortSignal = "aborted") => (demoRequests' = demoRequests)]_vars

C12_Witness ==
  /\ demoPc = "done"
  /\ abortedAt = "censusFetch"
  /\ demoRequests = <<"geo", "census">>
  /\ demoResult.error = "Request cancelled"

\* C13: findOverlappingBusinesses returns exactly one result for each
\* unordered pair of different input positions whose distance is strictly less
\* than the sum of their effective radii, and nothing else: no pair twice, no
\* entity paired with itself, at most n(n-1)/2 results, and the distance of
\* every result is less than radiusA + radiusB.
C13_Radius(k) ==
  IF geoBusinesses[k].radius = NoRadius THEN DefaultRadius ELSE geoBusinesses[k].radius
C13_Distance(i, j) ==
  LET a == geoBusinesses[i].location.lat
      b == geoBusinesses[j].location.lat
  IN  IF a >= b THEN a - b ELSE b - a
C13_Position(place_id) ==
  CHOOSE k \in 1..Len(geoBusinesses) : geoBusinesses[k].place_id = place_id
C13_Pair(result) == {C13_Position(result.business1), C13_Position(result.business2)}
C13_Overlapping ==
  {pair \in SUBSET (1..Len(geoBusinesses)) :
     /\ Cardinality(pair) = 2
     /\ \E i \in pair, j \in pair :
          i < j /\ C13_Distance(i, j) < C13_Radius(i) + C13_Radius(j)}

C13_OnePerOverlappingPair ==
  (geoPc = "done") =>
     LET n == Len(geoBusinesses)
         results == 1..Len(geoOverlaps)
     IN  /\ \A k \in results : C13_Pair(geoOverlaps[k]) \in C13_Overlapping
         /\ \A pair \in C13_Overlapping :
               Cardinality({k \in results : C13_Pair(geoOverlaps[k]) = pair}) = 1
         /\ 2 * Len(geoOverlaps) <= n * (n - 1)
         /\ \A k \in results :
               LET i == C13_Position(geoOverlaps[k].business1)
                   j == C13_Position(geoOverlaps[k].business2)
               IN  geoOverlaps[k].distance < C13_Radius(i) + C13_Radius(j)

C13_Witness ==
  /\ geoPc = "done"
  /\ Len(geoBusinesses) = 3
  /\ Len(geoOverlaps) = 2
  /\ C13_Distance(2, 3) = C13_Radius(2) + C13_Radius(3)

\* C14: the results are in the order the pairs are found: the result of the
\* input positions (i, j) comes before that of (k, l) exactly when i < k, or
\* i = k and j < l; business1 of every result is the entity that comes first
\* in the input; the input list is not modified.
C14_Before(a, b) == a[1] < b[1] \/ (a[1] = b[1] /\ a[2] < b[2])
C14_Positions(result) ==
  <<C13_Position(result.business1), C13_Position(result.business2)>>

C14_InDiscoveryOrder ==
  /\ \A k \in 1..Len(geoOverlaps) :
        C14_Positions(geoOverlaps[k])[1] < C14_Positions(geoOverlaps[k])[2]
  /\ \A k \in 1..Len(geoOverlaps), l \in 1..Len(geoOverlaps) :
        (k < l) <=> C14_Before(C14_Positions(geoOverlaps[k]), C14_Positions(geoOverlaps[l]))

C14_PairDiscoveryOrder ==
  /\ []C14_InDiscoveryOrder
  /\ [][geoBusinesses' = geoBusinesses]_vars

C14_Witness ==
  /\ geoPc = "done"
  /\ Len(geoOverlaps) = 3
  /\ C14_Positions(geoOverlaps[2]) = <<1, 3>>

\* C15: doCirclesOverlap(c1, r1, c2, r2) is true if and only if the distance
\* of c1 and c2 is strictly less than r1 + r2; circles that touch from outside
\* (distance equal to r1 + r2) do not overlap.
C15_Distance(args) ==
  IF args.center1.lat >= args.center2.lat
    THEN args.center1.lat - args.center2.lat
    ELSE args.center2.lat - args.center1.lat

C15_StrictOverlap ==
  overlapCall.called =>
     (overlapCall.result <=>
        (C15_Distance(overlapCall.args) < overlapCall.args.radius1 + overlapCall.args.radius2))

C15_Witness ==
  /\ overlapCall.called
  /\ C15_Distance(overlapCall.args) = overlapCall.args.radius1 + overlapCall.args.radius2
  /\ overlapCall.result = FALSE

\* C16: for every pair of circles with distance >= r1 + r2, doCirclesOverlap
\* returns false and calculateCircleIntersectionArea returns 0: the two agree
\* on which pairs are disjoint.
C16_Apart(args) == C15_Distance(args) >= args.radius1 + args.radius2

C16_DisjointAgree ==
  /\ (overlapCall.called /\ C16_Apart(overlapCall.args)) => (overlapCall.result = FALSE)
  /\ (areaCall.called /\ C16_Apart(areaCall.args)) => (areaCall.result = NoArea)
  /\ (overlapCall.called /\ areaCall.called /\ overlapCall.args = areaCall.args) =>
        ((overlapCall.result = FALSE) <=> (areaCall.result = NoArea))

C16_Witness ==
  /\ overlapCall.called
  /\ areaCall.called
  /\ overlapCall.args = areaCall.args
  /\ C15_Distance(areaCall.args) = areaCall.args.radius1 + areaCall.args.radius2
  /\ overlapCall.result = FALSE
  /\ areaCall.result = NoArea

\* C17: for two circles with positive radii and distance <= |r1 - r2| (one
\* inside the other, the same centre with equal radii included),
\* calculateCircleIntersectionArea returns pi * min(r1, r2)^2.
C17_Inside(args) ==
  /\ args.radius1 > 0
  /\ args.radius2 > 0
  /\ \/ C15_Distance(args) <= args.radius1 - args.radius2
     \/ C15_Distance(args) <= args.radius2 - args.radius1

C17_ContainedArea ==
  (areaCall.called /\ C17_Inside(areaCall.args)) =>
     (/\ areaCall.result.shape = "disc"
      /\ areaCall.result.radius <= areaCall.args.radius1
      /\ areaCall.result.radius <= areaCall.args.radius2
      /\ areaCall.result.radius \in {areaCall.args.radius1, areaCall.args.radius2})

C17_Witness ==
  /\ areaCall.called
  /\ areaCall.args.radius1 # areaCall.args.radius2
  /\ C15_Distance(areaCall.args) = areaCall.args.radius2 - areaCall.args.radius1
  /\ areaCall.result.shape = "disc"
  /\ areaCall.result.radius = areaCall.args.radius1

\* C18: for two entities of which the smaller circle lies inside the larger
\* (distance <= |r1 - r2|, such as the same coordinates with radii 1000 m and
\* 1500 m), findOverlappingBusinesses reports overlapPercentage = 100, and no
\* percentage is the result of a division by zero.
C18_Contained(result) ==
  LET i == C13_Position(result.business1)
      j == C13_Position(result.business2)
  IN  \/ C13_Distance(i, j) <= C13_Radius(i) - C13_Radius(j)
      \/ C13_Distance(i, j) <= C13_Radius(j) - C13_Radius(i)

C19_RadiusOf(business) ==
  IF business.radius = NoRadius THEN DefaultRadius ELSE business.radius

C20_Count(raw) == IF raw[1] = "digits" THEN raw[2] ELSE 0
C20_Degrees(row) ==
  C20_Count(row.B15003_022E) + C20_Count(row.B15003_023E)
    + C20_Count(row.B15003_024E) + C20_Count(row.B15003_025E)

C20_CollegePercent ==
  (demoResult.kind = "DemographicsData") =>
     LET population == C20_Count(demoRow.B01003_001E)
         percent == demoResult.collegePercent
     IN  /\ percent.den > 0
         /\ (population > 0) =>
               (percent.num * population = 100 * C20_Degrees(demoRow) * percent.den)
         /\ (population = 0) => (percent.num = 0)

C20_Witness ==
  /\ demoResult.kind = "DemographicsData"
  /\ demoResult.population = 60
  /\ demoResult.collegePercent = [num |-> 50, den |-> 3]

\* C21: every DemographicsData returned by fetchDemographics has population,
\* medianIncome and medianHomeValue of 0 or more and collegePercent from 0 to
\* 100, for every statistics row the service can return, rows with negative
\* field values included.
C21_NonNegative ==
  (demoResult.kind = "DemographicsData") =>
     (/\ demoResult.population >= 0
      /\ demoResult.medianIncome >= 0
      /\ demoResult.medianHomeValue >= 0
      /\ demoResult.collegePercent.num >= 0
      /\ demoResult.collegePercent.num <= 100 * demoResult.collegePercent.den)

\* C23: the statistics request is sent only after the geography lookup has
\* returned a state, a county and a block code, and after the geography
\* request; when the geography lookup fails in any way, no statistics request
\* is sent and the call ends with a DemographicsError.
C23_GeographyFailed == demoGeo \notin {"none", "ok"}

C23_StatisticsAfterGeography ==
  /\ demoRequests \in {<<>>, <<"geo">>, <<"geo", "census">>}
  /\ (Len(demoRequests) = 2) => (demoGeo = "ok")
  /\ C23_GeographyFailed =>
        (/\ demoRequests = <<"geo">>
         /\ demoPc = "done"
         /\ demoCensus = "none"
         /\ demoResult.kind = "DemographicsError")

C23_Witness ==
  /\ demoPc = "done"
  /\ demoGeo = "missingCode"
  /\ demoRequests = <<"geo">>
  /\ demoResult.kind = "DemographicsError"
  /\ demoResult.details = "Missing FIPS data"

\* C24: enrichment writes realDemographics only: the output for every input
\* point has the id and the other fields (lat, lng, tortoiseLevel, reasoning,
\* demographics, proximityAnalysis) of the input point, on the success path and
\* on the catch path, and the input objects are not modified.
C24_SameFields(output, input) ==
  /\ output.id = input.id
  /\ output.payload = input.payload

C24_OutputKeepsFields ==
  /\ \A i \in 1..Len(recommendations) :
        (mapped[i].state = "fulfilled") => C24_SameFields(mapped[i].value, recommendations[i])
  /\ (enrichStatus = "resolved") =>
        (/\ Len(enrichedRecommendations) = Len(recommendations)
         /\ \A i \in 1..Len(recommendations) :
              C24_SameFields(enrichedRecommendations[i], recommendations[i]))
  /\ \A i \in 1..Len(recommendations) : recommendations[i].realDemographics = "unset"

C24_OnlyRealDemographicsWritten ==
  /\ []C24_OutputKeepsFields
  /\ [][recommendations' = recommendations]_vars

C24_Witness ==
  /\ enrichStatus = "resolved"
  /\ Len(recommendations) = 2
  /\ recommendations[1].payload # recommendations[2].payload
  /\ lookupOutcome[1] = "rejects"
  /\ lookupOutcome[2] = "data"
  /\ enrichedRecommendations[1].payload = recommendations[1].payload
  /\ enrichedRecommendations[2].realDemographics = "DemographicsData"
  /\ recommendations[2].realDemographics = "unset"

\* C26: within one search the results come before the enrichment: when
\* fetchBusinessDemographics calls onBusinessesFound, the same search has
\* already called onOverlapsDetected and onBusinessesFound with the businesses
\* without demographics, and the enriched list has the same businesses in the
\* same order as that first list.
C26_SameBusinesses(enriched, first) ==
  /\ Len(enriched) = Len(first)
  /\ \A m \in 1..Len(first) :
        /\ enriched[m].place_id = first[m].place_id
        /\ ~first[m].demographics

C26_ResultsBeforeEnrichment ==
  \A s \in SearchIds :
     LET log == search[s].notified
     IN  \A k \in 1..Len(log) :
            (log[k].by = "fetchBusinessDemographics") =>
               (/\ \E i \in 1..(k - 1) : log[i].call = "onOverlapsDetected"
                /\ \E j \in 1..(k - 1) :
                      /\ log[j].call = "onBusinessesFound"
                      /\ log[j].by = "searchBusinesses"
                      /\ C26_SameBusinesses(log[k].list, log[j].list)
                /\ \A l \in (k + 1)..Len(log) : log[l].by # "searchBusinesses")

C26_Witness ==
  \E s \in SearchIds :
     LET log == search[s].notified
     IN  /\ Len(log) = 5
         /\ log[3].call = "onBusinessesFound"
         /\ log[5].by = "fetchBusinessDemographics"
         /\ Len(log[5].list) >= 2
         /\ log[5].list[1].place_id # log[5].list[2].place_id
         /\ log[5].list[1].demographics
         /\ businesses = <<s, "enriched">>

\* C29: the overlaps and the business list the consumer holds come from the
\* same search: once every dispatched search has settled, with results, with
\* no result or with an error, both place ids of every overlap held belong to
\* a business of the list held.
C29_OverlapsHeld ==
  IF overlaps = 0 THEN <<>>
  ELSE LET log == search[overlaps].notified
           k == CHOOSE k \in 1..Len(log) : log[k].call = "onOverlapsDetected"
       IN  log[k].list

C29_BusinessesHeld ==
  IF businesses[2] \in {"list", "enriched"} THEN BusinessesOf(businesses[1]) ELSE <<>>

C29_PlaceIdsHeld == {C29_BusinessesHeld[k].place_id : k \in 1..Len(C29_BusinessesHeld)}

C29_OverlapsBelongToBusinesses ==
  (\A s \in SearchIds : search[s].lookup # "pending") =>
     (\A k \in 1..Len(C29_OverlapsHeld) :
        /\ C29_OverlapsHeld[k].business1 \in C29_PlaceIdsHeld
        /\ C29_OverlapsHeld[k].business2 \in C29_PlaceIdsHeld)

\* C30: the searching indicator does not stay stuck: once every dispatched
\* places lookup has settled (resolved, rejected, or of a superseded search),
\* the last of onSearchStart and onSearchComplete the consumer received is
\* onSearchComplete.
C30_AllSettled == \A s \in SearchIds : search[s].lookup # "pending"

C30_IndicatorNotStuck == C30_AllSettled => ~isSearchingBusinesses

C30_Witness ==
  /\ nextId >= 2
  /\ C30_AllSettled
  /\ search[1].aborted
  /\ \A k \in 1..Len(search[1].notified) : search[1].notified[k].call # "onSearchComplete"
  /\ error = "search"
  /\ ~isSearchingBusinesses

\* C25: in the partial-overlap branch of calculateCircleIntersectionArea
\* (|r1 - r2| < distance < r1 + r2, positive radii) both arguments of acos lie
\* in [-1, 1] and the quantity under the square root is not negative, so the
\* area is never NaN.
C25_Value(x) == x.m * (2 ^ x.e)
C25_PartialOverlap ==
  /\ lensCall.called
  /\ C25_Value(lensCall.radius1) > 0
  /\ C25_Value(lensCall.radius2) > 0
  /\ Abs(C25_Value(lensCall.radius1) - C25_Value(lensCall.radius2)) < C25_Value(lensCall.distance)
  /\ C25_Value(lensCall.distance) < C25_Value(lensCall.radius1) + C25_Value(lensCall.radius2)
C25_InUnitInterval(x) == ~FLess(FOne, x) /\ ~FLess(x, FNeg(FOne))
C25_AreaIsNumber ==
  (C25_PartialOverlap /\ lensCall.branch = "lens")
    => /\ C25_InUnitInterval(lensCall.operands.acos1)
       /\ C25_InUnitInterval(lensCall.operands.acos2)
       /\ ~FLess(lensCall.operands.sqrt, FZero)
       /\ ~lensCall.isNaN

\* C27: loadGoogleMapsScript is a single-initialization guard. While a load
\* is in progress every call returns the same pending promise and appends no
\* script element, so at most one script load is in flight at any time; after
\* a load has failed (script error, or readiness timeout after 50 polls) the
\* pending promise is discarded and a later call starts a fresh load.
C27_InFlight == {k \in LoadIds : script[k].state \in {"loading", "polling"}}
C27_Call == loaderCalls' # loaderCalls
C27_OneInFlight ==
  /\ Cardinality(C27_InFlight) <= 1
  /\ \A k \in C27_InFlight : isLoading /\ loadPromise = k /\ promise[k] = "pending"
C27_CallWhileLoading ==
  (C27_Call /\ C27_InFlight # {})
    => /\ loaderCall'.returned \in C27_InFlight
       /\ ~loaderCall'.appended
       /\ script' = script
C27_FailedPromiseDiscarded ==
  \A k \in LoadIds : promise[k] = "rejected" => loadPromise # k
C27_LastLoadFailed == loads >= 1 /\ promise[loads] = "rejected"
C27_FreshLoadAfterFailure ==
  (C27_Call /\ C27_LastLoadFailed)
    => /\ loaderCall'.appended
       /\ loads' = loads + 1
       /\ promise'[loads'] = "pending"
C27_SingleInitialization ==
  /\ [](C27_OneInFlight /\ C27_FailedPromiseDiscarded)
  /\ [][C27_CallWhileLoading /\ C27_FreshLoadAfterFailure]_vars
C27_GuardWhileLoading ==
  /\ [](C27_OneInFlight /\ C27_FailedPromiseDiscarded)
  /\ [][C27_CallWhileLoading]_vars

\* C22: while a popup request for a key is outstanding, a second request for
\* the same key issues no network request, does not abort the outstanding
\* request and leaves the popup unchanged; a request for a different key
\* aborts the outstanding one, so at most one popup request is live at any time.
C22_Call == clicks' # clicks
C22_Live == {r \in PopupIds : Outstanding(r) /\ ~popup[r].aborted}
C22_LiveKeys == {popup[r].requestKey : r \in C22_Live}
C22_OneLive == Cardinality(C22_Live) <= 1
C22_DuplicateSkipped ==
  (C22_Call /\ clicked' \in C22_LiveKeys)
    => /\ popup' = popup
       /\ popupCount' = popupCount
       /\ demographicAbortController' = demographicAbortController
       /\ demographicInfoWindow' = demographicInfoWindow
C22_OtherKeyAborts ==
  (C22_Call /\ clicked' \notin C22_LiveKeys)
    => /\ \A r \in C22_Live : popup'[r].aborted
       /\ popupCount' = popupCount + 1
       /\ popup'[popupCount'].requestKey = clicked'
       /\ popup'[popupCount'].fetches = 1
C28_LatestOwnsKey ==
  (popupCount >= 1 /\ Outstanding(popupCount))
    => lastDemographicRequest = popup[popupCount].requestKey
C28_AbortedCompletionKeepsKey ==
  \A r \in PopupIds :
    (Outstanding(r) /\ popup[r].aborted /\ popup'[r].pc = "done")
      => (lastDemographicRequest' = lastDemographicRequest /\ lastDemographicRequest' # NoKey)
====
